---- MODULE Spec2Model ----
(***************************************************************************)
(* A model of one heph worker: ActorSystem::run and schedule_processes     *)
(* (src/src/system/mod.rs), the processes it drives, the system poller and *)
(* the waker notification channel.  The scheduler, the mailbox and the     *)
(* waker are used by that code but their own source is not part of src/;   *)
(* they are modelled from the specification and from the unit tests in     *)
(* src/src/scheduler/process/tests.rs.                                     *)
(***************************************************************************)
EXTENDS Integers, Sequences, FiniteSets, TLC

\* ----------------------------------------------------------------- bounds
\* Number of slots of the scheduler's slab (PIDs are 0 .. NumSlots-1).
NumSlots == 2
\* Capacity of the waker notification channel in the model.
MaxWakes == 1
\* Capacity of an actor's inbox in the model.
InboxCap == 1
\* Largest accumulated runtime (in milliseconds) the ordering is checked on.
MaxRuntime == 5

\* Largest duration measured for one call of Process::run.
MaxStep == 2
\* Number of messages sent to the actor of the process model.
MaxSent == 2
\* Number of times the actor of the process model is rebuilt.
MaxRebuilds == 2

\* Last instant of the clock of the restart supervisor model.
MaxTime == 8

\* restart_supervisor!: the default maximum number of restarts and the default
\* duration, in seconds, after which the counter is reset.
MAX_RESTARTS == 5
MAX_DURATION == 5

Pid == 0 .. (NumSlots - 1)

VARIABLES
    pc,                  \* position of the worker in ActorSystem::run
    result,              \* what run returned: "none", "Ok" or "ErrPoll"
    ran,                 \* value returned by the last Scheduler::run_process
    readyAfterSchedule,  \* history: a process was Ready when schedule_processes returned
    iterSteps,           \* history: processes stepped in the current loop iteration
    everStepped,         \* history: run_process has stepped a process
    has_initiators,      \* ActorSystem.has_initiators
    kind,                \* slab of the scheduler: pid -> kind of process, or "none"
    active,              \* scheduler: pid -> number of entries in the ready heap
    inactive,            \* scheduler: pids of Inactive processes
    running,             \* pids of processes whose step is executing (Running)
    waker_notifications, \* channel of Waker notifications (pids), oldest first
    wokenWhileRunning,   \* history: pids in the channel pushed while their process was Running
    pollerReady,         \* pids with an event pending in the system poller
    events,              \* the Events buffer filled by the last poll
    deadlines,           \* pids with a registered deadline that has not passed
    inbox,               \* pid -> number of messages in the actor's mailbox
    notified,            \* history: actors sent a message while Inactive with an empty
                         \* inbox, and not marked Ready since
    pa, pb,              \* two processes handed to the comparator
    ord,                 \* the comparator's answer for pa and pb, or "none"
    pkind,               \* one process on its own: "actor" or "initiator"
    pstate,              \* its state in the scheduler: Ready, Running, Inactive, Dropped
    ppc,                 \* position inside its Process::run, "idle" between calls
    presult,             \* the ProcessResult of the current or last call of run
    pruntime,            \* its accumulated runtime
    measured,            \* history: sum of the durations measured for its run calls
    generation,          \* number of times its actor was rebuilt
    polledGen,           \* history: generation of the actor polled last, -1 if none
    restarted,           \* history: the last run call rebuilt the actor and nothing
                         \* has marked the process Ready since
    sup_log,             \* history: for the last failure of the current or last run
                         \* call, the supervisor calls, each decision followed by
                         \* its answer, the rebuilds ("new", "new_failed") and the
                         \* outcome of the poll of the rebuilt actor
    mailbox,             \* the actor's inbox, oldest message first
    nsent,               \* number of messages sent to the actor (they are 1 .. nsent)
    delivered,           \* history: messages received, with the receiving generation
    atRestart,           \* history: the inbox when the actor was last rebuilt
    heap,                \* a scheduler on its own: its Ready processes
    parked,              \* its Inactive processes
    current,             \* the process it is stepping, if any
    restarts_left,       \* a restart_supervisor on its own: the restarts left
    last_restart,        \* time of its last restart: {} for None, {t} for Some(t)
    args,                \* the arguments it restarts the actor with
    clock,               \* the time Instant::now() returns
    returned,            \* history: what its last decision returned
    called,              \* history: the method called last, "new" after construction
    prev_left,           \* history: restarts_left before the last call
    prev_last,           \* history: last_restart before the last call
    chain,               \* history: Restart answers since the last pause between
                         \* calls that was longer than MAX_DURATION
    chainStopped,        \* history: Stop was answered since that pause
    restartsAt,          \* history: number of Restart answers at each instant
    \* ---- timer objects held by actors (timer.rs)
    timerHeld,           \* pids of the actors that hold a Timer or Deadline that
                         \* has not fired
    firedDropped,        \* history: pids reported by the poller for the deadline
                         \* of a timer that had been dropped before
    \* ---- an ActorSystemRef and the system it points to
    system_alive,        \* the ActorSystem, owner of the shared internals, exists
    from_system,         \* the reference came from an ActorSystem (else test_ref)
    sys_actors,          \* actors the system's scheduler holds
    sys_tasks,           \* tasks the system's scheduler holds
    sys_handles,         \* Evented handles registered with the system's poller
    sys_deadlines,       \* pids with a deadline in the system's poller
    ref_op,              \* history: the method of the reference called last
    ref_result,          \* history: what that call returned
    add_deadline_result, \* history: what the last add_deadline returned
    \* ---- one actor's inbox and the references to it
    inbox_owner,         \* the actor's process, whose context owns the inbox, exists
    actor_refs,          \* outstanding LocalActorRef values (weak pointers)
    inbox_queue,         \* the messages in the inbox; empty once it is freed
    sends,               \* history: number of send calls
    send_result,         \* history: what the last send returned
    received,            \* history: the messages the actor received, in order
    recv_result,         \* history: what the last receive returned
    \* ---- the trace log of a worker (rt/trace.rs)
    log_attached,        \* the worker's Option<Log> is Some
    trace_pc,            \* "idle", or "started" between start and finish
    trace_buf,           \* Log.buf, the bytes of the record being written
    trace_file,          \* the bytes the trace file holds
    trace_writes,        \* history: number of write calls made on the file
    last_write,          \* history: the buffer, accepted length and result of
                         \* the last write_once
    timing,              \* what start returned: "None" or "Some"
    op_outcome,          \* the result of the operation being traced
    warned,              \* history: number of warnings logged by finish
    returned_by,         \* history: what the last open or finish returned
    traced,              \* history: number of finish calls
    \* ---- the initiator of the process on its own
    poll_log,            \* history: what Initiator::poll returned in this run
    \* ---- one Timer or Deadline and one Interval, with the time (timer.rs)
    time_now,            \* what Instant::now() returns
    t_kind,              \* "none", "Timer" or "Deadline": the future that was made
    t_deadline,          \* its deadline
    fut_ready,           \* the future a Deadline wraps is ready
    poll_out,            \* history: the last poll of the future: its result, the
                         \* time, and whether the wrapped future was polled
    iv_made,             \* an Interval was made
    iv_interval,         \* Interval.interval
    iv_deadline,         \* Interval.deadline
    iv_registered,       \* history: the deadlines the Interval passed to add_deadline
    iv_items             \* history: the times at which the Interval yielded an item

loopVars == << pc, result, ran, readyAfterSchedule, iterSteps, everStepped >>
schedVars == << kind, active, inactive, running >>
chanVars == << waker_notifications, wokenWhileRunning >>
pollVars == << pollerReady, events >>
boxVars == << inbox, notified >>
ordVars == << pa, pb, ord >>
procVars == << pkind, pstate, ppc, presult, pruntime, measured, generation, polledGen,
               restarted, sup_log, mailbox, nsent, delivered, atRestart >>
fairVars == << heap, parked, current >>
timerVars == << timerHeld, firedDropped >>
refVars == << system_alive, from_system, sys_actors, sys_tasks, sys_handles,
             sys_deadlines, ref_op, ref_result, add_deadline_result >>
actorRefVars == << inbox_owner, actor_refs, inbox_queue, sends, send_result,
                  received, recv_result >>
traceVars == << log_attached, trace_pc, trace_buf, trace_file, trace_writes,
               last_write, timing, op_outcome, warned, returned_by, traced >>
timeVars == << time_now, t_kind, t_deadline, fut_ready, poll_out, iv_made, iv_interval,
              iv_deadline, iv_registered, iv_items >>
workerVars == << loopVars, has_initiators, schedVars, chanVars, pollVars, deadlines,
                boxVars, timerVars, refVars, actorRefVars, traceVars, poll_log, timeVars >>
superVars == << restarts_left, last_restart, args, clock, returned, called,
                prev_left, prev_last, chain, chainStopped, restartsAt >>

vars == << loopVars, has_initiators, schedVars, chanVars, pollVars, deadlines,
           boxVars, ordVars, procVars, fairVars, superVars, timerVars, refVars,
           actorRefVars, traceVars, poll_log, timeVars >>

\* The value of ref_result before any call.
NoResult == [kind |-> "none", reason |-> "", back |-> ""]

Live(p) == kind[p] # "none"
LivePids == { p \in Pid : Live(p) }

\* --------------------------------------------------- priority and ordering
Priority == {"LOW", "NORMAL", "HIGH"}

\* The weights of the priorities (Duration * Priority).
LOW == 64
NORMAL == 16
HIGH == 4

weight(prio) == CASE prio = "LOW" -> LOW [] prio = "NORMAL" -> NORMAL [] prio = "HIGH" -> HIGH

\* Ord for Priority: HIGH > NORMAL > LOW.
priority_cmp(x, y) ==
    IF weight(x) = weight(y) THEN "Equal"
    ELSE IF weight(x) < weight(y) THEN "Greater" ELSE "Less"

\* The fair runtime of a process: runtime * priority.
fair_runtime(p) == p.runtime * weight(p.priority)

\* A comparator that looks at the priority before the fair runtime.
cmp_priority_first(a, b) ==
    IF priority_cmp(a.priority, b.priority) # "Equal"
    THEN priority_cmp(a.priority, b.priority)
    ELSE IF fair_runtime(a) < fair_runtime(b) THEN "Greater"
    ELSE IF fair_runtime(a) > fair_runtime(b) THEN "Less"
    ELSE "Equal"

\* A comparator without the tie-break on priority.
cmp_no_tie_break(a, b) ==
    IF fair_runtime(a) < fair_runtime(b) THEN "Greater"
    ELSE IF fair_runtime(a) > fair_runtime(b) THEN "Less"
    ELSE "Equal"

\* Ord for Process: the process with the smaller fair runtime is the greater
\* one (it leaves the max-heap first); equal fair runtimes are ordered by
\* priority.  "Ordering is based only on runtime and priority" (tests.rs).
cmp(a, b) ==
    IF fair_runtime(a) < fair_runtime(b) THEN "Greater"
    ELSE IF fair_runtime(a) > fair_runtime(b) THEN "Less"
    ELSE priority_cmp(a.priority, b.priority)

Process == [pid : Pid, priority : Priority, runtime : 0 .. MaxRuntime]

\* PartialEq for Process: "Equality is only based on id alone" (tests.rs).
process_eq(a, b) == a.pid = b.pid
NoProcess == [pid |-> 0, priority |-> "NORMAL", runtime |-> 0]

\* ------------------------------------------------------------- scheduler
ReadyPids == { p \in Pid : active[p] > 0 }

\* Scheduler::process_ready: is any process in the ready heap.
process_ready == ReadyPids # {}

\* A schedule that pushes the pid without looking at the process's state.
schedule_unchecked(s, pid) ==
    [act |-> [s.act EXCEPT ![pid] = @ + 1], inact |-> s.inact \ {pid}]

\* Scheduler::schedule(pid) on the scheduler state s = [act, inact]: an Inactive
\* process is pushed onto the ready heap; a pid that is unknown, already Ready
\* or Running changes nothing.
schedule(s, pid) ==
    IF pid \in s.inact
    THEN [act |-> [s.act EXCEPT ![pid] = @ + 1], inact |-> s.inact \ {pid}]
    ELSE s

\* schedule called for every pid of a sequence, in order.
RECURSIVE schedule_seq(_, _)
schedule_seq(s, pids) ==
    IF pids = << >> THEN s
    ELSE schedule_seq(schedule(s, Head(pids)), Tail(pids))

\* The pids of a set as a sequence, in ascending order.
RECURSIVE SetToSeq(_)
SetToSeq(S) ==
    IF S = {} THEN << >>
    ELSE LET m == CHOOSE x \in S : \A y \in S : x <= y
         IN  << m >> \o SetToSeq(S \ {m})

\* SchedulerRef::add_process: the vacant slab entry, the lowest free index.
FreePids == { p \in Pid : ~Live(p) }
add_process_first_slot == CHOOSE p \in Pid : \A q \in Pid : p <= q

add_process == CHOOSE p \in FreePids : \A q \in FreePids : p <= q

\* ---------------------------------------------------------------- poller
\* The timeout schedule_processes hands to Poller::poll.
Timeout == IF ~has_initiators \/ process_ready THEN "zero" ELSE "none"

\* A poll with no timeout returns only once an event is available.
PollReturns == Timeout = "zero" \/ pollerReady # {}

\* The worker sits in a poll without timeout and no event is available.
Blocked == pc = "schedule" /\ Timeout = "none" /\ pollerReady = {}

WakePids == { waker_notifications[i] : i \in 1 .. Len(waker_notifications) }

Init ==
    /\ pc = "setup"
    /\ result = "none"
    /\ ran = FALSE
    /\ readyAfterSchedule = FALSE
    /\ iterSteps = 0
    /\ everStepped = FALSE
    /\ has_initiators = FALSE
    /\ kind = [p \in Pid |-> "none"]
    /\ active = [p \in Pid |-> 0]
    /\ inactive = {}
    /\ running = {}
    /\ waker_notifications = << >>
    /\ wokenWhileRunning = {}
    /\ pollerReady = {}
    /\ events = {}
    /\ deadlines = {}
    /\ timerHeld = {}
    /\ firedDropped = {}
    /\ system_alive = TRUE
    /\ from_system = TRUE
    /\ sys_actors = 0
    /\ sys_tasks = 0
    /\ sys_handles = 0
    /\ sys_deadlines = {}
    /\ ref_op = "none"
    /\ ref_result = NoResult
    /\ add_deadline_result = "none"
    /\ inbox_owner = TRUE
    /\ actor_refs = 1
    /\ inbox_queue = << >>
    /\ sends = 0
    /\ send_result = [kind |-> "none", reason |-> "", message |-> 0]
    /\ received = << >>
    /\ recv_result = [op |-> "none", kind |-> "none", senders |-> 0]
    /\ log_attached = FALSE
    /\ trace_pc = "idle"
    /\ trace_buf = << >>
    /\ trace_file = << >>
    /\ trace_writes = 0
    /\ last_write = [buf |-> << >>, accepted |-> 0, result |-> "none"]
    /\ timing = "None"
    /\ op_outcome = "none"
    /\ warned = 0
    /\ returned_by = [op |-> "none", value |-> "none"]
    /\ traced = 0
    /\ poll_log = << >>
    /\ time_now = 0
    /\ t_kind = "none"
    /\ t_deadline = 0
    /\ fut_ready = FALSE
    /\ poll_out = [op |-> "none", value |-> "none", at |-> 0, polled_fut |-> FALSE,
                   fut |-> FALSE]
    /\ iv_made = FALSE
    /\ iv_interval = 0
    /\ iv_deadline = 0
    /\ iv_registered = << >>
    /\ iv_items = << >>
    /\ inbox = [p \in Pid |-> 0]
    /\ notified = {}
    /\ pa = NoProcess
    /\ pb = NoProcess
    /\ ord = "none"
    /\ pkind = "actor"
    /\ pstate = "Ready"
    /\ ppc = "idle"
    /\ presult = "none"
    /\ pruntime = 0
    /\ measured = 0
    /\ generation = 0
    /\ polledGen = -1
    /\ restarted = FALSE
    /\ sup_log = << >>
    /\ mailbox = << >>
    /\ nsent = 0
    /\ delivered = << >>
    /\ atRestart = << >>
    /\ heap = {}
    /\ parked = {}
    /\ current = {}
    /\ restarts_left = MAX_RESTARTS
    /\ last_restart = {}
    /\ args = "a"
    /\ clock = 0
    /\ returned = [kind |-> "none", arg |-> ""]
    /\ called = "new"
    /\ prev_left = MAX_RESTARTS
    /\ prev_last = {}
    /\ chain = 0
    /\ chainStopped = FALSE
    /\ restartsAt = [t \in 0 .. MaxTime |-> 0]

\* A process can be added, and a message sent, before run is called or by the
\* process being stepped (through its ActorSystemRef and actor references).
UserCodeRuns == pc = "setup" \/ (pc = "stepping" /\ running # {})

\* ActorSystemInner::add_actor_setup: a new actor process, Ready.  When the
\* registration or the setup function fails the slab entry is abandoned.
AddActor ==
    /\ UserCodeRuns
    /\ FreePids # {}
    /\ \E ok \in BOOLEAN :
         IF ok
         THEN LET pid == add_process IN
              /\ kind' = [kind EXCEPT ![pid] = "actor"]
              /\ inbox' = [inbox EXCEPT ![pid] = 0]
              /\ active' = [active EXCEPT ![pid] = @ + 1]
         ELSE UNCHANGED << kind, inbox, active >>
    /\ UNCHANGED << loopVars, has_initiators, inactive, running, chanVars,
                    pollVars, deadlines, notified, ordVars, procVars, fairVars, superVars, timerVars, refVars, actorRefVars,
                    traceVars, poll_log, timeVars >>

\* ActorSystem::add_initiator: only callable on the ActorSystem itself, that is
\* before run.  has_initiators is set when the initiator's init succeeded.
AddInitiator ==
    /\ pc = "setup"
    /\ FreePids # {}
    /\ \E ok \in BOOLEAN :
         IF ok
         THEN LET pid == add_process IN
              /\ kind' = [kind EXCEPT ![pid] = "initiator"]
              /\ active' = [active EXCEPT ![pid] = @ + 1]
              /\ has_initiators' = TRUE
         ELSE UNCHANGED << kind, active, has_initiators >>
    /\ UNCHANGED << loopVars, inactive, running, chanVars, pollVars, deadlines,
                    boxVars, ordVars, procVars, fairVars, superVars, timerVars, refVars,
           actorRefVars, traceVars, poll_log, timeVars >>

\* ActorSystemInner::add_task (Executor::spawn_obj on an ActorSystemRef).
AddTask ==
    /\ UserCodeRuns
    /\ FreePids # {}
    /\ LET pid == add_process IN
         /\ kind' = [kind EXCEPT ![pid] = "task"]
         /\ active' = [active EXCEPT ![pid] = @ + 1]
    /\ UNCHANGED << loopVars, has_initiators, inactive, running, chanVars,
                    pollVars, deadlines, boxVars, ordVars, procVars, fairVars, superVars, timerVars, refVars, actorRefVars,
                    traceVars, poll_log, timeVars >>

\* The caller calls ActorSystem::run.
Run ==
    /\ pc = "setup"
    /\ pc' = "schedule"
    /\ UNCHANGED << result, ran, readyAfterSchedule, iterSteps, everStepped,
                    has_initiators,
                    schedVars, chanVars, pollVars, deadlines, boxVars, ordVars, procVars, fairVars, superVars, timerVars, refVars, actorRefVars,
                    traceVars, poll_log, timeVars >>

\* ------------------------------------------------------------ worker loop
\* ActorSystem::schedule_processes when the poll succeeds: poll the system
\* poller, schedule every process with an event, then every process with a
\* waker notification.
schedule_processes ==
    /\ pc = "schedule"
    /\ PollReturns
    /\ events' = pollerReady
    /\ pollerReady' = {}
    /\ waker_notifications' = << >>
    /\ wokenWhileRunning' = {}
    /\ LET s == schedule_seq([act |-> active, inact |-> inactive],
                             SetToSeq(pollerReady) \o waker_notifications) IN
         /\ active' = s.act
         /\ inactive' = s.inact
         /\ readyAfterSchedule' = (\E p \in Pid : s.act[p] > 0)
         /\ notified' = { q \in notified : s.act[q] = 0 }
    /\ iterSteps' = 0
    /\ pc' = "run"
    /\ UNCHANGED << result, ran, everStepped, has_initiators, kind, running,
                    deadlines, inbox, ordVars, procVars, fairVars, superVars, timerVars, refVars, actorRefVars,
                    traceVars, poll_log, timeVars >>

\* Where the loop goes when the poll failed: the two question marks make
\* schedule_processes and run return the error.
after_poll_error_go_on == "run"
after_poll_error == "returned"

\* ActorSystem::schedule_processes when the poller returns an error: run
\* returns RuntimeError::Poll at once.
schedule_processes_err ==
    /\ pc = "schedule"
    /\ pc' = after_poll_error
    /\ result' = "ErrPoll"
    /\ UNCHANGED << ran, readyAfterSchedule, iterSteps, everStepped, has_initiators,
                    schedVars,
                    chanVars, pollVars, deadlines, boxVars, ordVars, procVars, fairVars, superVars, timerVars, refVars, actorRefVars,
                    traceVars, poll_log, timeVars >>

\* The processes Scheduler::run_process may take from the ready heap.  The heap
\* is ordered by fair runtime, a product of measured wall-clock durations, so
\* every Ready process can be the first.
NextReady == ReadyPids

\* A loop that calls run_process although a step is still executing.
MayRunProcessAnyTime == pc \in {"run", "stepping"}

\* The loop calls run_process once schedule_processes has returned; the
\* previous call has returned by then.
MayRunProcess == pc = "run" /\ running = {}

\* Scheduler::run_process, first half: with no Ready process it returns false;
\* otherwise the best Ready process leaves the heap and its step starts.
RunProcess ==
    /\ MayRunProcess
    /\ IF ~process_ready
       THEN /\ ran' = FALSE
            /\ pc' = "check"
            /\ UNCHANGED << active, running, iterSteps, everStepped, notified >>
       ELSE \E p \in NextReady :
            /\ active' = [active EXCEPT ![p] = @ - 1]
            /\ running' = running \cup {p}
            /\ iterSteps' = iterSteps + 1
            /\ everStepped' = TRUE
            /\ notified' = notified \ {p}
            /\ pc' = "stepping"
            /\ UNCHANGED ran
    /\ UNCHANGED << result, readyAfterSchedule, has_initiators, kind, inactive,
                    chanVars, pollVars, deadlines, inbox, ordVars, procVars, fairVars, superVars, timerVars, refVars, actorRefVars,
                    traceVars, poll_log, timeVars >>

\* Scheduler::run_process, second half: the step returns.  Pending makes the
\* process Inactive, Complete drops it and frees its pid; run_process returns
\* true.  (InitiatorProcess::run returns Complete when the initiator's poll
\* returned an error, Pending otherwise.)  A notification sent during the step
\* is not seen here: a Waker is built from a pid and the channel's Sender only
\* (new_waker(pid, sender)), run_process is handed only the ActorSystemRef, and
\* the Receiver is a field of ActorSystem that schedule_processes alone reads.
StepReturn ==
    /\ pc = "stepping"
    /\ \E p \in running, res \in {"Pending", "Complete"} :
         /\ running' = running \ {p}
         /\ IF res = "Pending"
            THEN /\ inactive' = inactive \cup {p}
                 /\ UNCHANGED << kind, inbox, wokenWhileRunning >>
            ELSE /\ kind' = [kind EXCEPT ![p] = "none"]
                 /\ inbox' = [inbox EXCEPT ![p] = 0]
                 /\ wokenWhileRunning' = wokenWhileRunning \ {p}
                 /\ UNCHANGED inactive
         /\ timerHeld' = IF res = "Pending" THEN timerHeld ELSE timerHeld \ {p}
    /\ ran' = TRUE
    /\ pc' = "check"
    /\ UNCHANGED << result, readyAfterSchedule, iterSteps, everStepped,
                    has_initiators, active, waker_notifications, pollVars,
                    deadlines, notified, ordVars, procVars, fairVars, superVars,
                    firedDropped, refVars, actorRefVars,
                    traceVars, poll_log, timeVars >>

\* A stop condition that ignores what run_process returned.
ShouldStopOnNoEvents == events = {}

\* A stop condition that is never met.
ShouldStopNever == FALSE

\* The condition on which ActorSystem::run stops: no process was run and the
\* poll returned no event.
ShouldStop == ~ran /\ events = {}

\* ActorSystem::run: the test after run_process.  The Events buffer is not read
\* again before the next poll overwrites it, so it is emptied here.
RunCheck ==
    /\ pc = "check"
    /\ IF ShouldStop
       THEN pc' = "returned" /\ result' = "Ok"
       ELSE pc' = "schedule" /\ UNCHANGED result
    /\ events' = {}
    /\ UNCHANGED << ran, readyAfterSchedule, iterSteps, everStepped, has_initiators,
                    schedVars,
                    chanVars, pollerReady, deadlines, boxVars, ordVars, procVars, fairVars, superVars, timerVars, refVars, actorRefVars,
                    traceVars, poll_log, timeVars >>

\* --------------------------------------------- what a step does while running
\* The running process invokes its own Waker (a future that yields).
StepWake ==
    /\ pc = "stepping"
    /\ Len(waker_notifications) < MaxWakes
    /\ \E p \in running :
         /\ kind[p] \in {"actor", "task"}
         /\ waker_notifications' = Append(waker_notifications, p)
         /\ wokenWhileRunning' = wokenWhileRunning \cup {p}
    /\ UNCHANGED << loopVars, has_initiators, schedVars, pollVars, deadlines,
                    boxVars, ordVars, procVars, fairVars, superVars, timerVars, refVars,
           actorRefVars, traceVars, poll_log, timeVars >>

\* A notifier that loses the notification.
NotifyDropped(ready, q) == ready

\* The mailbox's notifier: the user space registration made under the actor's
\* pid in add_actor_setup makes the poller report that pid.
Notify(ready, q) == ready \cup {q}

\* User code sends a message through a LocalActorRef.  MailBox delivery: the
\* message is queued and the mailbox's notifier, a user space registration
\* under the actor's pid, makes the poller report the pid.
StepSend ==
    /\ UserCodeRuns
    /\ \E q \in Pid :
         /\ kind[q] = "actor"
         /\ inbox[q] < InboxCap
         /\ inbox' = [inbox EXCEPT ![q] = @ + 1]
         /\ pollerReady' = IF inbox[q] = 0 THEN Notify(pollerReady, q) ELSE pollerReady
         /\ notified' = IF inbox[q] = 0 /\ q \in inactive
                        THEN notified \cup {q} ELSE notified
    /\ UNCHANGED << loopVars, has_initiators, schedVars, chanVars, events,
                    deadlines, ordVars, procVars, fairVars, superVars, timerVars, refVars, actorRefVars,
                    traceVars, poll_log, timeVars >>

\* ActorContext::try_receive_next / ReceiveMessage::poll with a message queued.
StepReceive ==
    /\ pc = "stepping"
    /\ \E p \in running :
         /\ kind[p] = "actor"
         /\ inbox[p] > 0
         /\ inbox' = [inbox EXCEPT ![p] = @ - 1]
    /\ UNCHANGED << loopVars, has_initiators, schedVars, chanVars, pollVars,
                    deadlines, notified, ordVars, procVars, fairVars, superVars, timerVars, refVars, actorRefVars,
                    traceVars, poll_log, timeVars >>

\* ------------------------------------------------------------- environment
\* The worker reads the poller and the notification channel only in
\* schedule_processes, so what other threads and the OS do between the end of
\* one step and the next poll is placed just before that poll.
EnvMayAct == pc \in {"schedule", "stepping"}

\* The OS reports readiness of a handle registered under the pid of a live
\* initiator or actor.
OsEvent ==
    /\ EnvMayAct
    /\ \E p \in Pid :
         /\ kind[p] \in {"initiator", "actor"}
         /\ p \notin pollerReady
         /\ pollerReady' = pollerReady \cup {p}
    /\ UNCHANGED << loopVars, has_initiators, schedVars, chanVars, events,
                    deadlines, boxVars, ordVars, procVars, fairVars, superVars, timerVars, refVars, actorRefVars,
                    traceVars, poll_log, timeVars >>

\* Another thread invokes the Waker of a live actor or task: the pid is pushed
\* onto the notification channel.
ExternalWake ==
    /\ EnvMayAct
    /\ Len(waker_notifications) < MaxWakes
    /\ \E p \in Pid :
         /\ kind[p] \in {"actor", "task"}
         /\ waker_notifications' = Append(waker_notifications, p)
         /\ wokenWhileRunning' =
                IF p \in running THEN wokenWhileRunning \cup {p} ELSE wokenWhileRunning
    /\ UNCHANGED << loopVars, has_initiators, schedVars, pollVars, deadlines,
                    boxVars, ordVars, procVars, fairVars, superVars, timerVars, refVars,
           actorRefVars, traceVars, poll_log, timeVars >>

\* ------------------------------------------------------------------ timers
\* ActorSystemRef::add_deadline, called by Timer::new, Deadline::new and
\* Interval with the pid of the running actor.
add_deadline ==
    /\ pc = "stepping"
    /\ \E p \in running :
         /\ kind[p] = "actor"
         /\ p \notin deadlines
         /\ deadlines' = deadlines \cup {p}
         /\ timerHeld' = timerHeld \cup {p}
    /\ UNCHANGED << loopVars, has_initiators, schedVars, chanVars, pollVars,
                    boxVars, ordVars, procVars, fairVars, superVars,
                    firedDropped, refVars, actorRefVars,
                    traceVars, poll_log, timeVars >>

\* What dropping a Timer or Deadline does to the deadlines of the poller.
\* Timer and Deadline have no Drop implementation and nothing removes a
\* deadline: the registration made by add_deadline stays.
deadlines_after_drop(p) == deadlines

\* The running actor drops its Timer or Deadline before it fired, for
\* instance as the losing side of a race with a message receive.
drop_timer ==
    /\ pc = "stepping"
    /\ \E p \in running \cap timerHeld :
         /\ p \in deadlines
         /\ timerHeld' = timerHeld \ {p}
         /\ deadlines' = deadlines_after_drop(p)
    /\ UNCHANGED << loopVars, has_initiators, schedVars, chanVars, pollVars,
                    boxVars, ordVars, procVars, fairVars, superVars,
                    firedDropped, refVars, actorRefVars,
                    traceVars, poll_log, timeVars >>

\* A registered deadline passes: the poller will report its pid.
DeadlineExpire ==
    /\ EnvMayAct
    /\ \E p \in deadlines :
         /\ deadlines' = deadlines \ {p}
         /\ pollerReady' = pollerReady \cup {p}
         /\ timerHeld' = timerHeld \ {p}
         /\ firedDropped' =
                IF p \in timerHeld THEN firedDropped ELSE firedDropped \cup {p}
    /\ UNCHANGED << loopVars, has_initiators, schedVars, chanVars, events,
                    boxVars, ordVars, procVars, fairVars, superVars, refVars,
                    actorRefVars,
                    traceVars, poll_log, timeVars >>

\* What the worker thread itself does once run was called.
WorkerNext == schedule_processes \/ RunProcess \/ StepReturn \/ RunCheck

Next ==
    \/ AddActor \/ AddInitiator \/ AddTask \/ Run
    \/ schedule_processes \/ schedule_processes_err
    \/ RunProcess \/ StepReturn \/ RunCheck
    \/ StepWake \/ StepSend \/ StepReceive
    \/ OsEvent \/ ExternalWake

\* The worker without timers.
Spec == Init /\ [][Next]_vars

\* The worker thread keeps running, and the caller does call run.
FairSpec == Spec /\ WF_vars(WorkerNext) /\ WF_vars(Run)

\* The worker with timers.
SpecTimers == Init /\ [][Next \/ add_deadline \/ DeadlineExpire]_vars

\* The worker with timers that actors may drop before they fire.
SpecDropTimers ==
    Init /\ [][Next \/ add_deadline \/ drop_timer \/ DeadlineExpire]_vars

\* ------------------------------------------------- the comparator on its own
WorkerAtInit ==
    /\ pc = "setup"
    /\ result = "none"
    /\ ran = FALSE
    /\ readyAfterSchedule = FALSE
    /\ iterSteps = 0
    /\ everStepped = FALSE
    /\ has_initiators = FALSE
    /\ kind = [p \in Pid |-> "none"]
    /\ active = [p \in Pid |-> 0]
    /\ inactive = {}
    /\ running = {}
    /\ waker_notifications = << >>
    /\ wokenWhileRunning = {}
    /\ pollerReady = {}
    /\ events = {}
    /\ deadlines = {}
    /\ timerHeld = {}
    /\ firedDropped = {}
    /\ system_alive = TRUE
    /\ from_system = TRUE
    /\ sys_actors = 0
    /\ sys_tasks = 0
    /\ sys_handles = 0
    /\ sys_deadlines = {}
    /\ ref_op = "none"
    /\ ref_result = NoResult
    /\ add_deadline_result = "none"
    /\ inbox_owner = TRUE
    /\ actor_refs = 1
    /\ inbox_queue = << >>
    /\ sends = 0
    /\ send_result = [kind |-> "none", reason |-> "", message |-> 0]
    /\ received = << >>
    /\ recv_result = [op |-> "none", kind |-> "none", senders |-> 0]
    /\ log_attached = FALSE
    /\ trace_pc = "idle"
    /\ trace_buf = << >>
    /\ trace_file = << >>
    /\ trace_writes = 0
    /\ last_write = [buf |-> << >>, accepted |-> 0, result |-> "none"]
    /\ timing = "None"
    /\ op_outcome = "none"
    /\ warned = 0
    /\ returned_by = [op |-> "none", value |-> "none"]
    /\ traced = 0
    /\ poll_log = << >>
    /\ time_now = 0
    /\ t_kind = "none"
    /\ t_deadline = 0
    /\ fut_ready = FALSE
    /\ poll_out = [op |-> "none", value |-> "none", at |-> 0, polled_fut |-> FALSE,
                   fut |-> FALSE]
    /\ iv_made = FALSE
    /\ iv_interval = 0
    /\ iv_deadline = 0
    /\ iv_registered = << >>
    /\ iv_items = << >>
    /\ inbox = [p \in Pid |-> 0]
    /\ notified = {}

\* The process model before its first run: a process just added is Ready, has
\* not run and its inbox is empty.
ProcessAtInit ==
    /\ pkind = "actor"
    /\ pstate = "Ready"
    /\ ppc = "idle"
    /\ presult = "none"
    /\ pruntime = 0
    /\ measured = 0
    /\ generation = 0
    /\ polledGen = -1
    /\ restarted = FALSE
    /\ sup_log = << >>
    /\ mailbox = << >>
    /\ nsent = 0
    /\ delivered = << >>
    /\ atRestart = << >>

\* Supervisor::new of a restart_supervisor: all restarts left, no restart yet.
SupervisorAtInit ==
    /\ restarts_left = MAX_RESTARTS
    /\ last_restart = {}
    /\ args = "a"
    /\ clock = 0
    /\ returned = [kind |-> "none", arg |-> ""]
    /\ called = "new"
    /\ prev_left = MAX_RESTARTS
    /\ prev_last = {}
    /\ chain = 0
    /\ chainStopped = FALSE
    /\ restartsAt = [t \in 0 .. MaxTime |-> 0]

\* The scheduler model with no process added.
SchedulerAtInit ==
    /\ heap = {}
    /\ parked = {}
    /\ current = {}

OrdInit ==
    /\ WorkerAtInit
    /\ pa \in Process
    /\ pb \in Process
    /\ ord = "none"
    /\ ProcessAtInit
    /\ SchedulerAtInit
    /\ SupervisorAtInit

\* Ord::cmp is applied to the two processes.
Compare ==
    /\ ord = "none"
    /\ ord' = cmp(pa, pb)
    /\ UNCHANGED << loopVars, has_initiators, schedVars, chanVars, pollVars,
                    deadlines, boxVars, pa, pb, procVars, fairVars, superVars, timerVars, refVars, actorRefVars,
                    traceVars, poll_log, timeVars >>

SpecOrd == OrdInit /\ [][Compare]_vars

\* ------------------------------------------------------------- properties
\* C1: at any instant at most one process of the worker is Running; the
\* Running process is live and is neither in the ready heap nor Inactive.
AtMostOneRunning ==
    /\ Cardinality(running) <= 1
    /\ running # {} => pc = "stepping"
    /\ \A p \in running : Live(p) /\ active[p] = 0 /\ p \notin inactive

\* A process is Running while another one is Ready and has to wait.
OneRunsOtherWaits ==
    /\ pc = "stepping"
    /\ \E p \in running : \E q \in Pid \ {p} : active[q] > 0

\* C2: in a loop iteration whose poll succeeded, exactly one process is stepped
\* when a process is Ready after the poll and the drain of the notification
\* channel, and none otherwise; run does not return Ok from an iteration in
\* which a process was Ready.
OneStepPerIteration ==
    /\ iterSteps <= 1
    /\ pc = "check" => iterSteps = (IF readyAfterSchedule THEN 1 ELSE 0)
    /\ pc = "check" /\ iterSteps = 0 => ~process_ready
    /\ (pc = "returned" /\ result = "Ok") => (iterSteps = 0 /\ ~process_ready)

\* An iteration has stepped one process and another Ready process is left for
\* the next iteration.
SteppedOneOfTwo ==
    /\ pc = "check"
    /\ readyAfterSchedule
    /\ iterSteps = 1
    /\ process_ready

\* C3: run returns Ok only when there is no initiator and the scheduler holds no
\* process at all (violated: run returns Ok while an Inactive process waits).
ReturnsOkOnlyWhenEmpty ==
    (pc = "returned" /\ result = "Ok") => (~has_initiators /\ LivePids = {})

\* C4: when no initiator is ever added, the poller never fails and from some
\* point on every process has completed, run eventually returns Ok.
NoInitiatorsRunReturns ==
    ([](~has_initiators /\ result # "ErrPoll") /\ <>[](LivePids = {}))
        => <>(pc = "returned" /\ result = "Ok")

\* run has returned Ok after the processes it stepped have all completed.
ReturnedAfterAllCompleted ==
    /\ pc = "returned"
    /\ result = "Ok"
    /\ ~has_initiators
    /\ everStepped
    /\ LivePids = {}

\* C5: once every initiator that was added is gone and every other process has
\* completed, the worker is not left in a poll without timeout (violated:
\* has_initiators stays set and the poll blocks with nothing to wake it).
InitiatorsGoneNotBlocked ==
    (has_initiators /\ LivePids = {}) => ~Blocked

\* C6: the worker does not sit in a poll without timeout while a notification
\* that another thread pushed for a live Inactive process is in the channel
\* (violated: the channel is only read after the poll has returned).
ExternalWakeNotStuck ==
    ~(/\ Blocked
      /\ \E p \in WakePids : p \in inactive /\ p \notin wokenWhileRunning)

\* C7: the worker does not sit in a poll without timeout while a notification
\* pushed for a process during its own step is in the channel (violated).
SelfWakeNotStuck ==
    ~(/\ Blocked
      /\ \E p \in wokenWhileRunning : p \in WakePids /\ p \in inactive)

MarkedReadyBeforePoll ==
    pc = "schedule" => notified \cap inactive = {}

\* C9, amended: an actor that was sent a message while suspended with an empty
\* inbox is marked Ready by the schedule_processes call that follows, that is
\* before the next run_process; it is in the ready heap exactly once however
\* many events and notifications name it.
MarkedReadyOnceByNextPoll ==
    /\ pc = "run" => notified = {}
    /\ \A p \in notified : Live(p) /\ inbox[p] > 0
    /\ \A p \in Pid : active[p] <= 1
    /\ pc = "run" => \A p \in events : (Live(p) /\ p \notin running) => active[p] = 1

\* The poll has just reported an actor with a message in its inbox and the
\* actor is in the ready heap once.
SendMarkedReady ==
    /\ pc = "run"
    /\ \E p \in events : kind[p] = "actor" /\ inbox[p] > 0 /\ active[p] = 1

\* C10: when pa has the higher priority and both have the same runtime, pa is
\* ordered strictly above pb; this includes a runtime of zero for both.
HigherPriorityFirst ==
    (/\ ord # "none"
     /\ priority_cmp(pa.priority, pb.priority) = "Greater"
     /\ pa.runtime = pb.runtime) => ord = "Greater"

\* Two processes that never ran were compared and the one with the higher
\* priority came first.
ZeroRuntimeTie ==
    /\ ord = "Greater"
    /\ pa.runtime = 0 /\ pb.runtime = 0
    /\ pa.priority = "HIGH" /\ pb.priority = "LOW"

\* C11: the process with the smaller fair runtime (runtime x weight of the
\* priority) is ordered strictly above the other, whatever their priorities;
\* weight(HIGH) < weight(NORMAL) < weight(LOW), so d*HIGH < d*NORMAL < d*LOW
\* for every positive duration d and the three products are equal for d = 0.
FairRuntimeOrders ==
    /\ (ord # "none" /\ fair_runtime(pa) < fair_runtime(pb)) => ord = "Greater"
    /\ (ord # "none" /\ fair_runtime(pa) > fair_runtime(pb)) => ord = "Less"
    /\ HIGH < NORMAL /\ NORMAL < LOW
    /\ \A d \in 1 .. MaxRuntime :
         d * weight("HIGH") < d * weight("NORMAL") /\ d * weight("NORMAL") < d * weight("LOW")
    /\ 0 * weight("HIGH") = 0 * weight("NORMAL") /\ 0 * weight("NORMAL") = 0 * weight("LOW")

\* A process of lower priority that has run came before one of higher priority
\* that has run for longer in fair terms.
LowerPriorityButFairer ==
    /\ ord = "Greater"
    /\ pa.priority = "NORMAL" /\ pb.priority = "HIGH"
    /\ pa.runtime > 0
    /\ fair_runtime(pa) < fair_runtime(pb)

\* C12: the comparator answers Equal exactly when the two operands are the same
\* process, that is have the same pid (violated: two processes with different
\* pids, equal fair runtime and equal priority compare Equal).
EqualOnlyForSamePid ==
    ord # "none" => ((ord = "Equal") <=> process_eq(pa, pb))

\* ---------------------------------------------------------------------------
\* One process on its own: the calls of Process::run on an actor process or an
\* initiator process, the supervision of a failed actor, the actor's inbox and
\* the runtime the process accumulates.

ProcessResult == {"Pending", "Complete"}
SupervisorStrategy == {"Restart", "Stop"}
Last(q) == q[Len(q)]
Count(q, x) == Cardinality({i \in 1 .. Len(q) : q[i] = x})

\* The runtime after a call of run that took d and returned res.
add_runtime_pending_only(rt, d, res) == IF res = "Pending" THEN rt + d ELSE rt
add_runtime(rt, d, res) == rt + d

\* What run returns when the supervisor answers Stop.
stop_result_pending == "Pending"
stop_result == "Complete"

\* The inbox a rebuilt actor is given: the one the failed actor had.
restart_inbox_fresh(box) == << >>
restart_inbox(box) == box

\* The position run moves to after a rebuild that failed at position at.
after_failed_rebuild_retry(at) == "restart_error"
after_failed_rebuild(at) == IF at = "rebuild" THEN "restart_error" ELSE "second_error"

\* The position run moves to once the actor has been rebuilt.
after_rebuild_return == "returning"
after_rebuild == "poll"

ProcessInit ==
    /\ WorkerAtInit
    /\ pa = NoProcess
    /\ pb = NoProcess
    /\ ord = "none"
    /\ pkind \in {"actor", "initiator"}
    /\ pstate = "Ready"
    /\ ppc = "idle"
    /\ presult = "none"
    /\ pruntime = 0
    /\ measured = 0
    /\ generation = 0
    /\ polledGen = -1
    /\ restarted = FALSE
    /\ sup_log = << >>
    /\ mailbox = << >>
    /\ nsent = 0
    /\ delivered = << >>
    /\ atRestart = << >>
    /\ heap = {}
    /\ parked = {}
    /\ current = {}
    /\ SupervisorAtInit

\* The state a process is left in when run returned res, rebuilt telling
\* whether the call rebuilt the actor: Pending makes it inactive.
state_after_run_ready_if_rebuilt(res, rebuilt) ==
    IF res # "Pending" THEN "Dropped" ELSE IF rebuilt THEN "Ready" ELSE "Inactive"
state_after_run(res, rebuilt) == IF res = "Pending" THEN "Inactive" ELSE "Dropped"

\* The log of a run call that rebuilt the actor also gets the outcome of the
\* rebuilt actor's poll.
logged_outcome(log, out) == IF log = << >> THEN log ELSE Append(log, out)

\* The scheduler picks the process and calls its run.
run_called ==
    /\ pstate = "Ready"
    /\ ppc = "idle"
    /\ pruntime < MaxRuntime
    /\ pstate' = "Running"
    /\ ppc' = "poll"
    /\ restarted' = FALSE
    /\ sup_log' = << >>
    /\ UNCHANGED << pkind, presult, pruntime, measured, generation, polledGen,
                    mailbox, nsent, delivered, atRestart >>

ProcessRun ==
    /\ run_called
    /\ poll_log' = << >>
    /\ UNCHANGED << loopVars, has_initiators, schedVars, chanVars, pollVars,
                    deadlines, boxVars, timerVars, refVars, actorRefVars, traceVars,
                    timeVars, ordVars, fairVars, superVars >>

\* InitiatorProcess::run: Complete only if poll returned an error.
initiator_result_complete(polled) == "Complete"

initiator_result(polled) == IF polled = "Err" THEN "Complete" ELSE "Pending"

InitiatorPoll ==
    /\ pkind = "initiator"
    /\ ppc = "poll"
    /\ \E polled \in {"Ok", "Err"} :
         /\ presult' = initiator_result(polled)
         /\ poll_log' = Append(poll_log, polled)
    /\ ppc' = "returning"
    /\ UNCHANGED << pkind, pstate, pruntime, measured, generation, polledGen,
                    restarted, sup_log, mailbox, nsent, delivered, atRestart >>
    /\ UNCHANGED << loopVars, has_initiators, schedVars, chanVars, pollVars,
                    deadlines, boxVars, timerVars, refVars, actorRefVars, traceVars,
                    timeVars, ordVars, fairVars, superVars >>

\* The actor being polled takes the oldest message out of its inbox.
ActorReceive ==
    /\ pkind = "actor"
    /\ ppc = "poll"
    /\ mailbox # << >>
    /\ delivered' = Append(delivered, [msg |-> Head(mailbox), gen |-> generation])
    /\ mailbox' = Tail(mailbox)
    /\ UNCHANGED << pkind, pstate, ppc, presult, pruntime, measured, generation,
                    polledGen, restarted, sup_log, nsent, atRestart >>
    /\ UNCHANGED << workerVars, ordVars, fairVars, superVars >>

\* The poll of the actor returns: not ready, finished, or an error.
actor_polled(out) ==
    /\ pkind = "actor"
    /\ ppc = "poll"
    /\ polledGen' = generation
    /\ \/ out = "Pending" /\ presult' = "Pending" /\ ppc' = "returning"
                          /\ sup_log' = logged_outcome(sup_log, out)
       \/ out = "Ok" /\ presult' = "Complete" /\ ppc' = "returning"
                     /\ sup_log' = logged_outcome(sup_log, out)
       \/ out = "Err" /\ ppc' = "failed" /\ sup_log' = << >>
                      /\ UNCHANGED presult
    /\ UNCHANGED << pkind, pstate, pruntime, measured, generation, restarted,
                    mailbox, nsent, delivered, atRestart >>

ActorPoll ==
    /\ \E out \in {"Pending", "Ok", "Err"} : actor_polled(out)
    /\ UNCHANGED << workerVars, ordVars, fairVars, superVars >>

\* Supervisor::decide on the actor's error.
decided(strategy) ==
    /\ ppc = "failed"
    /\ sup_log' = sup_log \o << "decide", strategy >>
    /\ \/ strategy = "Stop" /\ presult' = stop_result /\ ppc' = "returning"
       \/ strategy = "Restart" /\ ppc' = "rebuild" /\ UNCHANGED presult
    /\ UNCHANGED << pkind, pstate, pruntime, measured, generation, polledGen,
                    restarted, mailbox, nsent, delivered, atRestart >>

\* The supervisor of the process model answers as it likes, Restart a bounded
\* number of times.
decide ==
    /\ \E strategy \in SupervisorStrategy :
           /\ strategy = "Restart" => generation < MaxRebuilds
           /\ decided(strategy)
    /\ UNCHANGED << workerVars, ordVars, fairVars, superVars >>

\* NewActor::new with the argument of Restart: the actor is rebuilt or the
\* rebuild fails.
new_actor_created(ok) ==
    /\ ppc \in {"rebuild", "rebuild_again"}
    /\ \/ /\ ok
          /\ sup_log' = Append(sup_log, "new")
          /\ generation' = generation + 1
          /\ restarted' = TRUE
          /\ atRestart' = mailbox
          /\ mailbox' = restart_inbox(mailbox)
          /\ ppc' = after_rebuild
       \/ /\ ~ok
          /\ sup_log' = Append(sup_log, "new_failed")
          /\ ppc' = after_failed_rebuild(ppc)
          /\ UNCHANGED << generation, restarted, atRestart, mailbox >>
    /\ UNCHANGED << pkind, pstate, presult, pruntime, measured, polledGen, nsent,
                    delivered >>

create_new_actor ==
    /\ \E ok \in BOOLEAN : new_actor_created(ok)
    /\ UNCHANGED << workerVars, ordVars, fairVars, superVars >>

\* Supervisor::decide_on_restart_error on the error of the first rebuild.
decided_on_restart_error(strategy) ==
    /\ ppc = "restart_error"
    /\ sup_log' = sup_log \o << "decide_on_restart_error", strategy >>
    /\ \/ strategy = "Stop" /\ presult' = stop_result /\ ppc' = "returning"
       \/ strategy = "Restart" /\ ppc' = "rebuild_again" /\ UNCHANGED presult
    /\ UNCHANGED << pkind, pstate, pruntime, measured, generation, polledGen,
                    restarted, mailbox, nsent, delivered, atRestart >>

decide_on_restart_error ==
    /\ \E strategy \in SupervisorStrategy : decided_on_restart_error(strategy)
    /\ UNCHANGED << workerVars, ordVars, fairVars, superVars >>

\* Supervisor::second_restart_error on the error of the second rebuild: the
\* actor is stopped.
second_restart_error_called ==
    /\ ppc = "second_error"
    /\ sup_log' = Append(sup_log, "second_restart_error")
    /\ presult' = "Complete"
    /\ ppc' = "returning"
    /\ UNCHANGED << pkind, pstate, pruntime, measured, generation, polledGen,
                    restarted, mailbox, nsent, delivered, atRestart >>

second_restart_error ==
    /\ second_restart_error_called
    /\ UNCHANGED << workerVars, ordVars, fairVars, superVars >>

\* run returns: the time it took is added to the runtime, a Pending process
\* becomes inactive and a Complete one is dropped.
run_returned ==
    /\ ppc = "returning"
    /\ \E d \in 1 .. MaxStep :
           /\ pruntime + d <= MaxRuntime
           /\ pruntime' = add_runtime(pruntime, d, presult)
           /\ measured' = measured + d
    /\ pstate' = state_after_run(presult, restarted)
    /\ ppc' = IF presult = "Pending" THEN "idle" ELSE "dropped"
    /\ UNCHANGED << pkind, presult, generation, polledGen, restarted, sup_log,
                    mailbox, nsent, delivered, atRestart >>

ProcessReturn ==
    /\ run_returned
    /\ UNCHANGED << workerVars, ordVars, fairVars, superVars >>

\* A message is sent through an actor reference; an inactive process is marked
\* ready by the notification.
ProcessSend ==
    /\ pkind = "actor"
    /\ pstate # "Dropped"
    /\ nsent < MaxSent
    /\ nsent' = nsent + 1
    /\ mailbox' = Append(mailbox, nsent + 1)
    /\ IF pstate = "Inactive"
          THEN pstate' = "Ready" /\ restarted' = FALSE
          ELSE UNCHANGED << pstate, restarted >>
    /\ UNCHANGED << pkind, ppc, presult, pruntime, measured, generation, polledGen,
                    sup_log, delivered, atRestart >>
    /\ UNCHANGED << workerVars, ordVars, fairVars, superVars >>

\* A wake-up or a poller event for the inactive process marks it ready.
ProcessWake ==
    /\ pstate = "Inactive"
    /\ pstate' = "Ready"
    /\ restarted' = FALSE
    /\ UNCHANGED << pkind, ppc, presult, pruntime, measured, generation, polledGen,
                    sup_log, mailbox, nsent, delivered, atRestart >>
    /\ UNCHANGED << workerVars, ordVars, fairVars, superVars >>

ProcessNext ==
    \/ ProcessRun
    \/ InitiatorPoll
    \/ ActorReceive
    \/ ActorPoll
    \/ decide
    \/ create_new_actor
    \/ decide_on_restart_error
    \/ second_restart_error
    \/ ProcessReturn
    \/ ProcessSend
    \/ ProcessWake

SpecProcess == ProcessInit /\ [][ProcessNext]_vars

best_by_priority(h) ==
    { p \in h : \A q \in h : priority_cmp(q.priority, p.priority) # "Greater" }
\* The processes at the top of the max-heap: none is greater by cmp.
best(h) == { p \in h : \A q \in h : cmp(q, p) # "Greater" }

\* Every pid holds a process of some priority that has not run.
SchedulerInit ==
    /\ WorkerAtInit
    /\ pa = NoProcess
    /\ pb = NoProcess
    /\ ord = "none"
    /\ ProcessAtInit
    /\ \E prio \in [Pid -> Priority] :
           heap = { [pid |-> p, priority |-> prio[p], runtime |-> 0] : p \in Pid }
    /\ parked = {}
    /\ current = {}
    /\ SupervisorAtInit

\* The model stops before a runtime could pass the bound.
WithinHorizon == \A p \in heap \cup parked : p.runtime + MaxStep <= MaxRuntime

\* run_process: the process at the top of the heap is taken out and stepped.
run_process ==
    /\ current = {}
    /\ heap # {}
    /\ WithinHorizon
    /\ \E p \in best(heap) :
           /\ heap' = heap \ {p}
           /\ current' = {p}
    /\ UNCHANGED parked
    /\ UNCHANGED << workerVars, ordVars, procVars, superVars >>

\* The step returns: its duration is added to the runtime; a Pending process
\* becomes inactive, a Complete one is dropped.
finish_step ==
    /\ \E p \in current, d \in 1 .. MaxStep, res \in ProcessResult :
           /\ current' = {}
           /\ parked' = IF res = "Pending"
                           THEN parked \cup {[p EXCEPT !.runtime = add_runtime(@, d, res)]}
                           ELSE parked
    /\ UNCHANGED heap
    /\ UNCHANGED << workerVars, ordVars, procVars, superVars >>

\* schedule_processes: an event or a wake-up for an inactive process puts it
\* back into the heap.
mark_ready ==
    /\ current = {}
    /\ \E p \in parked :
           /\ parked' = parked \ {p}
           /\ heap' = heap \cup {p}
    /\ UNCHANGED current
    /\ UNCHANGED << workerVars, ordVars, procVars, superVars >>

SchedulerNext == run_process \/ finish_step \/ mark_ready

SpecScheduler == SchedulerInit /\ [][SchedulerNext]_vars

\* C14: with a HIGH and a LOW process both Ready at runtime zero the HIGH one
\* is stepped first; a HIGH process that has a positive runtime is not stepped
\* while a LOW process with runtime zero is Ready: the LOW one goes first.
HighFirstThenLow ==
    \A c \in current, r \in heap :
        /\ (c.runtime = 0 /\ r.runtime = 0 /\ r.priority = "HIGH") => c.priority # "LOW"
        /\ (r.priority = "LOW" /\ r.runtime = 0 /\ c.priority = "HIGH") => c.runtime = 0
LowSteppedBeforeRunHigh ==
    \E c \in current, r \in heap :
        /\ c.priority = "LOW" /\ c.runtime = 0
        /\ r.priority = "HIGH" /\ r.runtime > 0

RestartRunsNewActor ==
    /\ sup_log = << "decide", "Restart", "new" >>
       => /\ ppc = "poll"
          /\ pstate = "Running"
          /\ generation >= 1
    /\ (/\ Len(sup_log) = 4
        /\ SubSeq(sup_log, 1, 3) = << "decide", "Restart", "new" >>)
       => /\ ppc \in {"returning", "idle", "dropped"}
          /\ polledGen = generation
          /\ presult = (IF sup_log[4] = "Pending" THEN "Pending" ELSE "Complete")
          /\ Count(sup_log, "decide") = 1
RestartedActorPending ==
    /\ ppc = "returning"
    /\ sup_log = << "decide", "Restart", "new", "Pending" >>
    /\ presult = "Pending"
    /\ polledGen = generation
    /\ generation = 1

\* C17 as stated: after a failure, a Restart answer and a rebuild that
\* succeeded, the process is left Ready when run returns.
RestartLeavesReady ==
    (ppc = "idle" /\ restarted) => pstate = "Ready"
\* C17, amended: the rebuilt actor has been polled by the run call that rebuilt
\* it; when that call returns, the rebuilt actor not being ready, the process
\* is Inactive, and it is Ready again only once a message, a wake-up or an
\* event has marked it.
RestartLeavesPolledAndInactive ==
    /\ (ppc = "idle" /\ restarted)
       => /\ pstate = "Inactive"
          /\ presult = "Pending"
          /\ polledGen = generation
    /\ (ppc = "idle" /\ pstate = "Ready" /\ generation >= 1 /\ presult = "Pending")
       => ~restarted
RestartedNowInactive ==
    /\ ppc = "idle"
    /\ restarted
    /\ generation = 1
    /\ pstate = "Inactive"
    /\ sup_log = << "decide", "Restart", "new", "Pending" >>

\* C18: a rebuilt actor receives from the inbox of the failed one: the
\* messages received so far followed by those still in the inbox are the
\* messages sent, in the order sent, whatever restarts happened in between; so
\* a message not yet received at the failure goes to the rebuilt actor and a
\* message already received is not delivered again.
InboxSurvivesRestart ==
    /\ [i \in 1 .. Len(delivered) |-> delivered[i].msg] \o mailbox
           = [i \in 1 .. nsent |-> i]
    /\ \A i, j \in 1 .. Len(delivered) :
           i < j => /\ delivered[i].msg < delivered[j].msg
                    /\ delivered[i].gen <= delivered[j].gen
PendingMessageReachedRebuiltActor ==
    /\ Len(delivered) = 2
    /\ delivered[1].gen = 0
    /\ delivered[2].gen >= 1
    /\ atRestart # << >>
    /\ delivered[2].msg = Head(atRestart)

\* C19: for one failure of the actor the supervisor is called in order and a
\* bounded number of times: decide first and once; decide_on_restart_error at
\* most once, after decide answered Restart and the rebuild failed;
\* second_restart_error at most once, after decide_on_restart_error answered
\* Restart and the second rebuild failed, and then the process is dropped; the
\* actor is rebuilt at most twice.
SupervisionOrderedAndBounded ==
    /\ sup_log # << >> => sup_log[1] = "decide"
    /\ Count(sup_log, "decide") <= 1
    /\ ppc \in {"rebuild", "restart_error", "rebuild_again", "second_error"}
           => Count(sup_log, "decide") = 1
    /\ Count(sup_log, "decide_on_restart_error") <= 1
    /\ Count(sup_log, "second_restart_error") <= 1
    /\ Count(sup_log, "new") + Count(sup_log, "new_failed") <= 2
    /\ \A i \in 1 .. Len(sup_log) :
           /\ sup_log[i] = "decide_on_restart_error"
                  => i = 4 /\ sup_log[2] = "Restart" /\ sup_log[3] = "new_failed"
           /\ sup_log[i] = "second_restart_error"
                  => /\ i = 7
                     /\ sup_log[4] = "decide_on_restart_error"
                     /\ sup_log[5] = "Restart"
                     /\ sup_log[6] = "new_failed"
                     /\ ppc \in {"returning", "dropped"}
                     /\ presult = "Complete"
                     /\ ppc = "dropped" => pstate = "Dropped"
SecondRestartFailedAndDropped ==
    /\ sup_log = << "decide", "Restart", "new_failed", "decide_on_restart_error",
                    "Restart", "new_failed", "second_restart_error" >>
    /\ ppc = "dropped"
    /\ pstate = "Dropped"

\* ---------------------------------------------------------------------------
\* A supervisor made by restart_supervisor! on its own: its counter of restarts
\* left, the time of its last restart, and the clock.

Arguments == {"a", "b"}

\* The counter is reset when more than MAX_DURATION has passed since the last
\* restart; never on the first error.
should_reset_at_max_duration(last, now) ==
    \E t \in last : now - t >= MAX_DURATION
should_reset(last, now) ==
    \E t \in last : now - t > MAX_DURATION

\* The test before the counter is taken down: self.restarts_left >= 1.
has_restart_left_always(left) == TRUE
has_restart_left(left) == left >= 1

\* The restarts left after a Restart answer: self.restarts_left -= 1.
after_restart_kept(left) == left
after_restart(left) == left - 1

\* The history of the answers: a call at now that answers Restart (restart) or
\* Stop, after a pause since the previous call.
Recorded(now, restart) ==
    LET paused == \E t \in last_restart : now - t > MAX_DURATION
        n == IF restart THEN 1 ELSE 0
    IN /\ chain' = IF paused THEN n ELSE chain + n
       /\ chainStopped' = IF paused THEN ~restart ELSE (chainStopped \/ ~restart)
       /\ restartsAt' = [restartsAt EXCEPT ![now] = @ + n]

\* Supervisor::new: the arguments are kept for the restarts.
SupervisorInit ==
    /\ WorkerAtInit
    /\ pa = NoProcess
    /\ pb = NoProcess
    /\ ord = "none"
    /\ ProcessAtInit
    /\ SchedulerAtInit
    /\ restarts_left = MAX_RESTARTS
    /\ last_restart = {}
    /\ args \in Arguments
    /\ clock = 0
    /\ returned = [kind |-> "none", arg |-> ""]
    /\ called = "new"
    /\ prev_left = MAX_RESTARTS
    /\ prev_last = {}
    /\ chain = 0
    /\ chainStopped = FALSE
    /\ restartsAt = [t \in 0 .. MaxTime |-> 0]

\* Time passes.
Tick ==
    /\ clock < MaxTime
    /\ clock' = clock + 1
    /\ UNCHANGED << restarts_left, last_restart, args, returned, called,
                    prev_left, prev_last, chain, chainStopped, restartsAt >>
    /\ UNCHANGED << workerVars, ordVars, procVars, fairVars >>

\* decide_impl: Supervisor::decide and SyncSupervisor::decide.
decide_impl ==
    LET now == clock
        left == IF should_reset(last_restart, now) THEN MAX_RESTARTS ELSE restarts_left
    IN /\ last_restart' = {now}
       /\ IF has_restart_left(left)
             THEN /\ restarts_left' = after_restart(left)
                  /\ returned' = [kind |-> "Restart", arg |-> args]
             ELSE /\ restarts_left' = left
                  /\ returned' = [kind |-> "Stop", arg |-> ""]
       /\ called' = "decide"
       /\ prev_left' = restarts_left
       /\ prev_last' = last_restart
       /\ Recorded(now, has_restart_left(left))
       /\ UNCHANGED << args, clock >>

restart_supervisor_decide ==
    /\ decide_impl
    /\ UNCHANGED << workerVars, ordVars, procVars, fairVars >>

\* Supervisor::decide_on_restart_error of the restart supervisor: the counter
\* is not reset here.
decide_on_restart_error_impl ==
    /\ last_restart' = {clock}
    /\ IF has_restart_left(restarts_left)
          THEN /\ restarts_left' = after_restart(restarts_left)
               /\ returned' = [kind |-> "Restart", arg |-> args]
          ELSE /\ UNCHANGED restarts_left
               /\ returned' = [kind |-> "Stop", arg |-> ""]
    /\ called' = "decide_on_restart_error"
    /\ prev_left' = restarts_left
    /\ prev_last' = last_restart
    /\ Recorded(clock, has_restart_left(restarts_left))
    /\ UNCHANGED << args, clock >>

\* It is called after decide answered Restart and the rebuild failed.
restart_supervisor_decide_on_restart_error ==
    /\ called = "decide"
    /\ returned.kind = "Restart"
    /\ decide_on_restart_error_impl
    /\ UNCHANGED << workerVars, ordVars, procVars, fairVars >>

\* Supervisor::second_restart_error of the restart supervisor: it only logs.
second_restart_error_impl ==
    /\ called' = "second_restart_error"
    /\ returned' = [kind |-> "none", arg |-> ""]
    /\ prev_left' = restarts_left
    /\ prev_last' = last_restart
    /\ UNCHANGED << restarts_left, last_restart, args, clock, chain, chainStopped,
                    restartsAt >>

\* It is called after decide_on_restart_error answered Restart and the second
\* rebuild failed.
restart_supervisor_second_restart_error ==
    /\ called = "decide_on_restart_error"
    /\ returned.kind = "Restart"
    /\ second_restart_error_impl
    /\ UNCHANGED << workerVars, ordVars, procVars, fairVars >>

SupervisorNext ==
    \/ Tick
    \/ restart_supervisor_decide
    \/ restart_supervisor_decide_on_restart_error
    \/ restart_supervisor_second_restart_error

SpecSupervisor == SupervisorInit /\ [][SupervisorNext]_vars

\* C20: a restart supervisor starts with restarts_left = MAX_RESTARTS and no
\* last restart.  A decide call records the time of the call as last_restart;
\* it first sets restarts_left back to MAX_RESTARTS only if there was a last
\* restart and more than MAX_DURATION has passed since; then with a restart
\* left it takes one off and returns Restart with the arguments given at
\* construction, and with none left it returns Stop and restarts_left stays 0.
RestartSupervisorDecides ==
    /\ called = "new" => restarts_left = MAX_RESTARTS /\ last_restart = {}
    /\ called = "decide"
       => LET now == CHOOSE t \in last_restart : TRUE
              reset == prev_last # {} /\ \A t \in prev_last : now - t > MAX_DURATION
              left == IF reset THEN MAX_RESTARTS ELSE prev_left
          IN /\ last_restart = {now} /\ now <= clock
             /\ left >= 1 => /\ restarts_left = left - 1
                             /\ returned = [kind |-> "Restart", arg |-> args]
             /\ left < 1 => /\ restarts_left = 0
                            /\ returned = [kind |-> "Stop", arg |-> ""]
CounterResetAfterMaxDuration ==
    /\ called = "decide"
    /\ prev_left = 0
    /\ \E t \in prev_last, now \in last_restart : now - t > MAX_DURATION
    /\ restarts_left = MAX_RESTARTS - 1
    /\ returned.kind = "Restart"

\* C21: decide_on_restart_error of a restart supervisor decides as decide
\* does: when more than MAX_DURATION has passed since the last restart it first
\* sets restarts_left back to MAX_RESTARTS; then with a restart left it takes
\* one off and returns Restart with the arguments, else it returns Stop.
RestartErrorDecidesLikeDecide ==
    called = "decide_on_restart_error"
    => LET now == CHOOSE t \in last_restart : TRUE
           reset == prev_last # {} /\ \A t \in prev_last : now - t > MAX_DURATION
           left == IF reset THEN MAX_RESTARTS ELSE prev_left
       IN /\ last_restart = {now}
          /\ left >= 1 => /\ restarts_left = left - 1
                          /\ returned = [kind |-> "Restart", arg |-> args]
          /\ left < 1 => /\ restarts_left = 0
                         /\ returned = [kind |-> "Stop", arg |-> ""]

\* C22: in a sequence of decide and decide_on_restart_error calls of a restart
\* supervisor, each no more than MAX_DURATION after the one before, at most
\* MAX_RESTARTS calls answer Restart and once one answered Stop the later ones
\* answer Stop; no span of MAX_DURATION holds more than MAX_RESTARTS Restart
\* answers.
SumRestarts(from, to) ==
    LET RECURSIVE Sum(_)
        Sum(t) == IF t > to \/ t > MaxTime THEN 0 ELSE restartsAt[t] + Sum(t + 1)
    IN Sum(from)
AtMostMaxRestartsPerDuration ==
    /\ chain <= MAX_RESTARTS
    /\ (chainStopped /\ called \in {"decide", "decide_on_restart_error"})
       => returned.kind = "Stop"
    /\ \A w \in 0 .. MaxTime : SumRestarts(w, w + MAX_DURATION) <= MAX_RESTARTS
AllRestartsUsedThenStop ==
    /\ chain = MAX_RESTARTS
    /\ chainStopped
    /\ returned.kind = "Stop"
    /\ \E w \in 0 .. MaxTime : SumRestarts(w, w + MAX_DURATION) = MAX_RESTARTS

\* ---------------------------------------------------------------------------
\* An actor that returns an error every time it is polled, supervised by a
\* restart supervisor, its failures following each other within MAX_DURATION.

SupervisedInit ==
    /\ WorkerAtInit
    /\ pa = NoProcess
    /\ pb = NoProcess
    /\ ord = "none"
    /\ ProcessAtInit
    /\ SchedulerAtInit
    /\ SupervisorAtInit

\* The poll of the actor returns an error.
FailingPoll ==
    /\ actor_polled("Err")
    /\ UNCHANGED << workerVars, ordVars, fairVars, superVars >>

\* run hands the error to the restart supervisor and follows its answer.
SupervisedDecide ==
    /\ decide_impl
    /\ decided(returned'.kind)
    /\ UNCHANGED << workerVars, ordVars, fairVars >>

\* run hands the error of the rebuild to the restart supervisor.
SupervisedDecideOnRestartError ==
    /\ decide_on_restart_error_impl
    /\ decided_on_restart_error(returned'.kind)
    /\ UNCHANGED << workerVars, ordVars, fairVars >>

SupervisedSecondRestartError ==
    /\ second_restart_error_impl
    /\ second_restart_error_called
    /\ UNCHANGED << workerVars, ordVars, fairVars >>

\* Time passes, no more than MAX_DURATION since the supervisor was last called.
TickWithinDuration ==
    /\ \A t \in last_restart : (clock + 1) - t <= MAX_DURATION
    /\ Tick

SupervisedStep ==
    \/ ProcessRun
    \/ FailingPoll
    \/ SupervisedDecide
    \/ create_new_actor
    \/ SupervisedDecideOnRestartError
    \/ SupervisedSecondRestartError
    \/ ProcessReturn

SupervisedNext == SupervisedStep \/ TickWithinDuration

\* The worker thread goes on executing the run call it is in.
SpecSupervised == SupervisedInit /\ [][SupervisedNext]_vars /\ WF_vars(SupervisedStep)

\* C23: an actor that fails on every run under a restart supervisor, each
\* failure within MAX_DURATION of the one before, is stopped in the end: it is
\* rebuilt at most MAX_RESTARTS times and then the process is dropped, on a
\* Stop answer or after two failed rebuilds.
FailingActorEventuallyStopped ==
    /\ <>(pstate = "Dropped")
    /\ [](generation <= MAX_RESTARTS)
    /\ [](chain <= MAX_RESTARTS)
    /\ [](pstate = "Dropped" => (returned.kind = "Stop" \/ called = "second_restart_error"))
StoppedAfterMaxRestarts ==
    /\ pstate = "Dropped"
    /\ generation = MAX_RESTARTS
    /\ returned.kind = "Stop"
    /\ called = "decide"
    /\ restarts_left = 0

\* C24: when the poller returns an error, run returns RuntimeError::Poll in
\* that iteration: nothing is scheduled, no notification is taken and no
\* process is stepped between the failed poll and the return; and run's result
\* is set only there, to the error, or by the stop test, to Ok: no step of an
\* actor or initiator and no send sets it.
PollErrorReturnsAtOnce ==
    /\ [][result' # result
          => \/ /\ pc = "schedule" /\ result' = "ErrPoll" /\ pc' = "returned"
                /\ UNCHANGED << schedVars, chanVars, pollVars, boxVars, iterSteps, ran >>
             \/ pc = "check" /\ result' = "Ok" /\ pc' = "returned"]_vars
    /\ [](result = "ErrPoll" => (pc = "returned" /\ running = {}))
    /\ [][pc = "returned" => UNCHANGED << result, schedVars, iterSteps >>]_vars
PollFailedWithWorkPending ==
    /\ result = "ErrPoll"
    /\ pc = "returned"
    /\ everStepped
    /\ pollerReady # {}
    /\ waker_notifications # << >>
    /\ inactive # {}

\* C25: at every poll of the worker loop the timeout is zero exactly when the
\* scheduler has a Ready process or the system has no initiator; otherwise the
\* poll may block (violated: has_initiators stays set when the last initiator
\* has completed, and the poll then blocks although no initiator is left).
TimeoutZeroIffReadyOrNoInitiator ==
    pc = "schedule"
    => ((Timeout = "zero") <=> (process_ready \/ \A p \in Pid : kind[p] # "initiator"))

\* The worker loop with deadlines under fairness: the worker thread keeps
\* executing, and time passes, so a registered deadline expires while the
\* loop is still running.
FairSpecTimers ==
    SpecTimers /\ WF_vars(WorkerNext) /\ WF_vars(Run) /\ SF_vars(DeadlineExpire)

\* C26: a live process that registered a deadline and returned Pending is
\* marked Ready, to be stepped, by an iteration of the loop once the deadline
\* has passed, even if no event, message or wake-up arrives (violated: with no
\* initiator the loop finds no Ready process and no event before the deadline
\* and run returns Ok).  A failed poll, which ends run with an error, is left
\* aside.
DeadlineHolderMarkedReady ==
    \A p \in Pid :
        (p \in deadlines /\ p \in inactive)
            ~> (p \in ReadyPids \/ p \in running \/ result = "ErrPoll")

\* C27: dropping a Timer or Deadline before it fires releases its
\* registration: no deadline stays registered for a live process that holds
\* no pending timer, and no process is reported by the poller on account of
\* the deadline of a dropped timer (violated: nothing removes the deadline).
DroppedTimerReleased ==
    /\ \A p \in deadlines : Live(p) => p \in timerHeld
    /\ firedDropped = {}

\* ---------------------------------------------- the ActorSystemRef on its own
\* How many actors, tasks and handles the system is given through the
\* reference.
MaxAdded == 2

\* Everything but the reference and its system.
notRefVars == << loopVars, has_initiators, schedVars, chanVars, pollVars, deadlines,
                boxVars, timerVars, actorRefVars, traceVars, ordVars, procVars,
                fairVars, superVars, poll_log,
                  timeVars >>

\* The state of the system the reference points to.
sysState == << sys_actors, sys_tasks, sys_handles, sys_deadlines >>

\* self.inner.upgrade(): the weak reference yields the internals only while
\* the ActorSystem that owns them exists; the weak reference of test_ref
\* never does (WeakShared::new()).
upgrade_while_system_alive == system_alive

upgrade == from_system /\ system_alive

\* The methods of ActorSystemRef, and the timers built on add_deadline.
RefMethods ==
    { "add_actor", "add_actor_setup", "poller_register", "poller_deregister",
      "get_notification_sender", "add_deadline", "spawn_obj", "status" }

TimerConstructors == { "Timer::new", "Deadline::new", "Interval::new" }

Returned(k, r, b) == [kind |-> k, reason |-> r, back |-> b]

\* What each method returns when upgrade fails.
shutdown_result(op) ==
    CASE op = "add_actor" -> Returned("Err", "SystemShutdown", "NewActor")
      [] op = "spawn_obj" -> Returned("Err", "shutdown", "task")
      [] op = "status" -> Returned("Err", "shutdown", "")
      [] op = "get_notification_sender" -> Returned("None", "", "")
      [] OTHER -> Returned("Err", "io: actor system shutdown", "")

SystemRefInit ==
    /\ WorkerAtInit
    /\ pa = NoProcess
    /\ pb = NoProcess
    /\ ord = "none"
    /\ ProcessAtInit
    /\ SchedulerAtInit
    /\ SupervisorAtInit

\* ActorSystemRef::test_ref: a reference whose weak pointer is empty.
test_ref ==
    /\ from_system
    /\ ref_op = "none"
    /\ from_system' = FALSE
    /\ UNCHANGED << system_alive, sysState, ref_op, ref_result,
                    add_deadline_result, notRefVars >>

\* The ActorSystem is dropped, and the shared internals with it.
drop_system ==
    /\ system_alive
    /\ system_alive' = FALSE
    /\ UNCHANGED << from_system, sysState, ref_op, ref_result,
                    add_deadline_result, notRefVars >>

\* ActorSystemRef::add_actor.
ref_add_actor ==
    /\ ref_op' = "add_actor"
    /\ IF upgrade
       THEN /\ sys_actors < MaxAdded
            /\ sys_actors' = sys_actors + 1
            /\ ref_result' = Returned("Ok", "", "LocalActorRef")
       ELSE /\ ref_result' = shutdown_result("add_actor")
            /\ UNCHANGED sys_actors
    /\ UNCHANGED << system_alive, from_system, sys_tasks, sys_handles,
                    sys_deadlines, add_deadline_result, notRefVars >>

\* ActorSystemRef::add_actor_setup: with the system alive the closure that
\* builds the actor may fail with an I/O error, and no actor is added.
ref_add_actor_setup ==
    /\ ref_op' = "add_actor_setup"
    /\ IF upgrade
       THEN \E ok \in BOOLEAN :
              IF ok
              THEN /\ sys_actors < MaxAdded
                   /\ sys_actors' = sys_actors + 1
                   /\ ref_result' = Returned("Ok", "", "")
              ELSE /\ ref_result' = Returned("Err", "io", "")
                   /\ UNCHANGED sys_actors
       ELSE /\ ref_result' = shutdown_result("add_actor_setup")
            /\ UNCHANGED sys_actors
    /\ UNCHANGED << system_alive, from_system, sys_tasks, sys_handles,
                    sys_deadlines, add_deadline_result, notRefVars >>

\* ActorSystemRef::poller_register.
ref_poller_register ==
    /\ ref_op' = "poller_register"
    /\ IF upgrade
       THEN /\ sys_handles < MaxAdded
            /\ sys_handles' = sys_handles + 1
            /\ ref_result' = Returned("Ok", "", "")
       ELSE /\ ref_result' = shutdown_result("poller_register")
            /\ UNCHANGED sys_handles
    /\ UNCHANGED << system_alive, from_system, sys_actors, sys_tasks,
                    sys_deadlines, add_deadline_result, notRefVars >>

\* ActorSystemRef::poller_deregister.
ref_poller_deregister ==
    /\ ref_op' = "poller_deregister"
    /\ IF upgrade
       THEN IF sys_handles > 0
            THEN /\ sys_handles' = sys_handles - 1
                 /\ ref_result' = Returned("Ok", "", "")
            ELSE /\ ref_result' = Returned("Err", "io", "")
                 /\ UNCHANGED sys_handles
       ELSE /\ ref_result' = shutdown_result("poller_deregister")
            /\ UNCHANGED sys_handles
    /\ UNCHANGED << system_alive, from_system, sys_actors, sys_tasks,
                    sys_deadlines, add_deadline_result, notRefVars >>

\* ActorSystemRef::get_notification_sender.
ref_get_notification_sender ==
    /\ ref_op' = "get_notification_sender"
    /\ ref_result' = IF upgrade THEN Returned("Some", "", "Sender")
                                ELSE shutdown_result("get_notification_sender")
    /\ UNCHANGED << system_alive, from_system, sysState, add_deadline_result,
                    notRefVars >>

\* The body of ActorSystemRef::add_deadline: the new deadlines of the poller
\* and the io::Result.
deadlines_added(p) == IF upgrade THEN sys_deadlines \cup {p} ELSE sys_deadlines

add_deadline_returns ==
    IF upgrade THEN Returned("Ok", "", "") ELSE shutdown_result("add_deadline")

\* ActorSystemRef::add_deadline called by itself.
ref_add_deadline ==
    /\ ref_op' = "add_deadline"
    /\ \E p \in Pid : sys_deadlines' = deadlines_added(p)
    /\ ref_result' = add_deadline_returns
    /\ add_deadline_result' = add_deadline_returns.kind
    /\ UNCHANGED << system_alive, from_system, sys_actors, sys_tasks,
                    sys_handles, notRefVars >>

\* Timer::new, Deadline::new and Interval::new: add_deadline is called as a
\* statement, its io::Result is discarded, and the timer is returned.
timer_new ==
    /\ \E ctor \in TimerConstructors :
         /\ ref_op' = ctor
         /\ ref_result' = Returned(ctor, "", "")
    /\ \E p \in Pid : sys_deadlines' = deadlines_added(p)
    /\ add_deadline_result' = add_deadline_returns.kind
    /\ UNCHANGED << system_alive, from_system, sys_actors, sys_tasks,
                    sys_handles, notRefVars >>

\* Executor::spawn_obj.
ref_spawn_obj ==
    /\ ref_op' = "spawn_obj"
    /\ IF upgrade
       THEN /\ sys_tasks < MaxAdded
            /\ sys_tasks' = sys_tasks + 1
            /\ ref_result' = Returned("Ok", "", "")
       ELSE /\ ref_result' = shutdown_result("spawn_obj")
            /\ UNCHANGED sys_tasks
    /\ UNCHANGED << system_alive, from_system, sys_actors, sys_handles,
                    sys_deadlines, add_deadline_result, notRefVars >>

\* Executor::status.
ref_status ==
    /\ ref_op' = "status"
    /\ ref_result' = IF upgrade THEN Returned("Ok", "", "")
                                ELSE shutdown_result("status")
    /\ UNCHANGED << system_alive, from_system, sysState, add_deadline_result,
                    notRefVars >>

RefCall ==
    \/ ref_add_actor \/ ref_add_actor_setup
    \/ ref_poller_register \/ ref_poller_deregister
    \/ ref_get_notification_sender \/ ref_add_deadline
    \/ ref_spawn_obj \/ ref_status

SystemRefNext == test_ref \/ drop_system \/ RefCall \/ timer_new

SpecSystemRef == SystemRefInit /\ [][SystemRefNext]_vars

\* C28: registering a deadline after the runtime has shut down fails and the
\* failure reaches the caller: add_deadline returns an error, and so does the
\* creation of a Timer, Deadline or Interval, whose deadline was not
\* registered (violated: the constructors discard the error and return the
\* timer).
DeadlineFailureSurfaced ==
    (ref_op \in TimerConstructors \cup {"add_deadline"} /\ add_deadline_result = "Err")
        => ref_result.kind = "Err"

\* What the specification lets each method return once the system is gone.
ShutdownAnswer(op) ==
    CASE op = "add_actor" -> [kind |-> "Err", reason |-> "SystemShutdown", back |-> "NewActor"]
      [] op = "spawn_obj" -> [kind |-> "Err", reason |-> "shutdown", back |-> "task"]
      [] op = "status" -> [kind |-> "Err", reason |-> "shutdown", back |-> ""]
      [] op = "get_notification_sender" -> [kind |-> "None", reason |-> "", back |-> ""]
      [] op \in {"add_actor_setup", "poller_register", "poller_deregister", "add_deadline"}
           -> [kind |-> "Err", reason |-> "io: actor system shutdown", back |-> ""]

\* C29: once the ActorSystem has been dropped, or for a test reference, every
\* method of the ActorSystemRef fails with the shutdown error and changes no
\* state: add_actor hands back the NewActor with SystemShutdown, spawn_obj
\* hands back the task with a shutdown error, status returns an error,
\* add_actor_setup, poller_register, poller_deregister and add_deadline return
\* an io error, and get_notification_sender returns None.
ShutdownRefFailsEverywhere ==
    [][(~from_system \/ ~system_alive)
         => /\ sysState' = sysState
            /\ (<< ref_op, ref_result >>' # << ref_op, ref_result >> /\ ref_op' \in RefMethods)
                  => ref_result' = ShutdownAnswer(ref_op')
            /\ (ref_op' = "add_deadline" /\ ref_op # "add_deadline")
                  => add_deadline_result' = "Err"]_vars

AddActorFailedAfterDrop ==
    /\ from_system
    /\ ~system_alive
    /\ sys_actors > 0
    /\ ref_op = "add_actor"
    /\ ref_result = [kind |-> "Err", reason |-> "SystemShutdown", back |-> "NewActor"]

\* ------------------------------------------ actor references and the inbox
MaxRefs == 2
MaxQueue == 2
MaxSends == 3
Messages == 1 .. 2

\* Everything but the inbox and its references.
notActorRefVars == << loopVars, has_initiators, schedVars, chanVars, pollVars,
                     deadlines, boxVars, timerVars, refVars, traceVars, ordVars,
                     procVars, fairVars, superVars, poll_log,
                  timeVars >>

\* add_actor_setup puts the MailBox in a Shared value that it moves into the
\* ActorContext, and gives LocalActorRef::new the downgraded pointer: the
\* inbox lives as long as its one owner, whatever references are left.
inbox_alive_by_references(owner, refs) == owner \/ refs > 0

inbox_alive(owner, refs) == owner

SendResult(k, r, m) == [kind |-> k, reason |-> r, message |-> m]

ActorRefInit ==
    /\ WorkerAtInit
    /\ pa = NoProcess
    /\ pb = NoProcess
    /\ ord = "none"
    /\ ProcessAtInit
    /\ SchedulerAtInit
    /\ SupervisorAtInit

\* LocalActorRef::clone.
actor_ref_clone ==
    /\ actor_refs > 0
    /\ actor_refs < MaxRefs
    /\ actor_refs' = actor_refs + 1
    /\ UNCHANGED << inbox_owner, inbox_queue, sends, send_result, received,
                    recv_result, notActorRefVars >>

\* A LocalActorRef is dropped.
actor_ref_drop ==
    /\ actor_refs > 0
    /\ actor_refs' = actor_refs - 1
    /\ inbox_queue' =
          IF inbox_alive(inbox_owner, actor_refs - 1) THEN inbox_queue ELSE << >>
    /\ UNCHANGED << inbox_owner, sends, send_result, received, recv_result,
                    notActorRefVars >>

\* The actor's process is dropped (it completed, or its supervisor stopped
\* it): the context goes, and the inbox with it unless something else owns it.
actor_process_dropped ==
    /\ inbox_owner
    /\ inbox_owner' = FALSE
    /\ inbox_queue' = IF inbox_alive(FALSE, actor_refs) THEN inbox_queue ELSE << >>
    /\ UNCHANGED << actor_refs, sends, send_result, received, recv_result,
                    notActorRefVars >>

\* A message in the inbox: its body, the reference it was sent through and
\* the number of the send call that queued it.
Queued(s, n, m) == [from |-> s, no |-> n, body |-> m]

\* LocalActorRef::send: the weak pointer is upgraded; a live inbox takes the
\* message, a dead one makes send return the message with ActorShutdown.
actor_ref_send ==
    /\ actor_refs > 0
    /\ sends < MaxSends
    /\ sends' = sends + 1
    /\ \E s \in 1 .. actor_refs, m \in Messages :
         IF inbox_alive(inbox_owner, actor_refs)
         THEN /\ Len(inbox_queue) < MaxQueue
              /\ inbox_queue' = Append(inbox_queue, Queued(s, sends + 1, m))
              /\ send_result' = SendResult("Ok", "", 0)
         ELSE /\ send_result' = SendResult("Err", "ActorShutdown", m)
              /\ UNCHANGED inbox_queue
    /\ UNCHANGED << inbox_owner, actor_refs, received, recv_result,
                    notActorRefVars >>

\* Inbox::receive_next: the position in the queue of the message it takes.
newest_position(q) == Len(q)

receive_position(q) == 1

Without(q, i) == [k \in 1 .. Len(q) - 1 |-> IF k < i THEN q[k] ELSE q[k + 1]]

\* What a receive returns: the operation, the kind of answer, and the number
\* of references (senders) outstanding when it ran.
Received(o, k) == [op |-> o, kind |-> k, senders |-> actor_refs]

\* The body shared by try_receive_next and ReceiveMessage::poll: both call
\* inbox.receive_next(); some is what the caller returns for Some(msg) and
\* none what it returns for None.
receive_next(o, some, none) ==
    /\ inbox_owner
    /\ IF inbox_queue # << >>
       THEN /\ received' = Append(received, inbox_queue[receive_position(inbox_queue)])
            /\ inbox_queue' = Tail(inbox_queue)
            /\ recv_result' = Received(o, some)
       ELSE /\ recv_result' = Received(o, none)
            /\ UNCHANGED << received, inbox_queue >>
    /\ UNCHANGED << inbox_owner, actor_refs, sends, send_result >>

\* Context::try_receive_next.
try_receive_next ==
    /\ receive_next("try_receive_next", "Some", "None")
    /\ UNCHANGED notActorRefVars

\* ReceiveMessage::poll, the future returned by Context::receive_next.
ReceiveMessage_poll ==
    /\ receive_next("ReceiveMessage::poll", "Ready", "Pending")
    /\ UNCHANGED notActorRefVars

ActorRefNext ==
    \/ actor_ref_clone \/ actor_ref_drop \/ actor_process_dropped
    \/ actor_ref_send \/ try_receive_next \/ ReceiveMessage_poll

SpecActorRef == ActorRefInit /\ [][ActorRefNext]_vars

\* C30: sending through an actor reference after the actor's process has been
\* dropped fails with the ActorShutdown reason and hands the message back;
\* references do not keep the inbox of a dropped actor alive, and the message
\* is never enqueued.
SendAfterDropFails ==
    [][/\ ~inbox_owner' => inbox_queue' = << >>
       /\ (~inbox_owner /\ sends' # sends)
             => /\ send_result'.kind = "Err"
                /\ send_result'.reason = "ActorShutdown"
                /\ send_result'.message \in Messages]_vars

SendFailedAfterActorDropped ==
    /\ ~inbox_owner
    /\ actor_refs > 0
    /\ sends > 1
    /\ send_result.kind = "Err"
    /\ send_result.message \in Messages

\* C31: the messages one sender sent are received in the order it sent them,
\* each at most once, and a receive that returns a message removes exactly
\* that message from the inbox.
FifoPerSender ==
    /\ [](\A i, j \in 1 .. Len(received) :
            /\ (i # j => received[i].no # received[j].no)
            /\ (i < j /\ received[i].from = received[j].from
                   => received[i].no < received[j].no))
    /\ [][received' # received
            => /\ Len(received') = Len(received) + 1
               /\ \E i \in 1 .. Len(inbox_queue) :
                    /\ received' = Append(received, inbox_queue[i])
                    /\ inbox_queue' = Without(inbox_queue, i)
               /\ recv_result'.kind \in {"Some", "Ready"}]_vars

TwoFromOneSenderReceived ==
    /\ Len(received) >= 3
    /\ received[1].from = received[3].from
    /\ received[1].from # received[2].from
    /\ recv_result.kind = "Ready"

\* C32: a pending receive resolves when a message arrives or all senders are
\* gone: a poll of the receive future that finds the inbox empty and no
\* reference outstanding returns the terminal Disconnected signal rather than
\* Pending (violated: the future only ever returns a message or Pending).
ReceiverSeesDisconnected ==
    (recv_result.op = "ReceiveMessage::poll" /\ recv_result.senders = 0
       /\ recv_result.kind # "Ready")
        => recv_result.kind = "Disconnected"

\* ------------------------------------------------------------ the trace log
\* How many events are traced.
MaxEvents == 2

\* Everything but the trace log.
notTraceVars == << loopVars, has_initiators, schedVars, chanVars, pollVars,
                  deadlines, boxVars, timerVars, refVars, actorRefVars, ordVars,
                  procVars, fairVars, superVars, poll_log,
                  timeVars >>

\* The bytes of the records, one token for each part that write! and
\* extend_from_slice put in the buffer.
MetadataRecord == << "{timestamp}", "\n" >>

EventAttributes == { << "{}" >>, << "{", "pid", "}" >> }

EventRecord(attributes) == << "{stream_id,description,start,end,attributes:" >>
                               \o attributes \o << "}", "\n" >>

\* Log::append starts with self.buf.clear(): the buffer written for an event
\* is the record alone.
buffer_kept(buf, record) == buf \o record

buffer_for_event(buf, record) == record

\* write_once: one call of write; fewer bytes accepted than the buffer holds
\* is the WriteZero error.
write_once_result(written, len) == IF written # len THEN "Err" ELSE "Ok"

\* What one call of write can do with a buffer: fail, or accept a prefix.
WriteOutcomes(buf) ==
    { [accepted |-> 0, result |-> "Err"] }
        \cup { [accepted |-> n, result |-> write_once_result(n, Len(buf))] :
                  n \in 0 .. Len(buf) }

\* finish returns nothing whatever append returned.
finish_propagates(append_result) == append_result

finish_returns(append_result) == "unit"

TraceInit ==
    /\ WorkerAtInit
    /\ pa = NoProcess
    /\ pb = NoProcess
    /\ ord = "none"
    /\ ProcessAtInit
    /\ SchedulerAtInit
    /\ SupervisorAtInit

\* Log::open: the file is opened for appending, the metadata record is put
\* in the buffer and written with write_once; an error of either ends open
\* without a Log.
Log_open ==
    /\ ~log_attached
    /\ trace_pc = "idle"
    /\ returned_by.op = "none"
    /\ \/ /\ returned_by' = [op |-> "open", value |-> "Err"]
          /\ UNCHANGED << log_attached, trace_buf, trace_file, trace_writes,
                          last_write >>
       \/ \E w \in WriteOutcomes(MetadataRecord) :
            /\ trace_writes' = trace_writes + 1
            /\ last_write' = [buf |-> MetadataRecord, accepted |-> w.accepted,
                              result |-> w.result]
            /\ trace_file' = trace_file \o SubSeq(MetadataRecord, 1, w.accepted)
            /\ log_attached' = (w.result = "Ok")
            /\ trace_buf' = IF w.result = "Ok" THEN MetadataRecord ELSE << >>
            /\ returned_by' = [op |-> "open", value |-> w.result]
    /\ UNCHANGED << trace_pc, timing, op_outcome, warned, traced, notTraceVars >>

\* trace::start, followed by the operation that is traced.
trace_start ==
    /\ trace_pc = "idle"
    /\ traced < MaxEvents
    /\ trace_pc' = "started"
    /\ timing' = IF log_attached THEN "Some" ELSE "None"
    /\ \E outcome \in {"Ok", "Err"} : op_outcome' = outcome
    /\ UNCHANGED << log_attached, trace_buf, trace_file, trace_writes, last_write,
                    warned, returned_by, traced, notTraceVars >>

\* trace::finish with Log::append and write_once.
trace_finish ==
    /\ trace_pc = "started"
    /\ trace_pc' = "idle"
    /\ traced' = traced + 1
    /\ IF log_attached
       THEN \E attributes \in EventAttributes :
              LET buf == buffer_for_event(trace_buf, EventRecord(attributes))
              IN \E w \in WriteOutcomes(buf) :
                   /\ trace_buf' = buf
                   /\ trace_writes' = trace_writes + 1
                   /\ last_write' = [buf |-> buf, accepted |-> w.accepted,
                                     result |-> w.result]
                   /\ trace_file' = trace_file \o SubSeq(buf, 1, w.accepted)
                   /\ warned' = IF w.result = "Err" THEN warned + 1 ELSE warned
                   /\ returned_by' = [op |-> "finish", value |-> finish_returns(w.result)]
       ELSE /\ returned_by' = [op |-> "finish", value |-> "unit"]
            /\ UNCHANGED << trace_buf, trace_writes, last_write, trace_file, warned >>
    /\ UNCHANGED << log_attached, timing, op_outcome, notTraceVars >>

TraceNext == Log_open \/ trace_start \/ trace_finish

SpecTrace == TraceInit /\ [][TraceNext]_vars

\* C33: a failure to write a trace event is never propagated: finish returns
\* nothing whatever append returned and logs a warning for an error, the
\* outcome of the traced operation is untouched and the worker goes on; with
\* no log attached start returns None and finish does nothing.
TraceFailureSwallowed ==
    /\ [](trace_pc = "started" => (timing = "None" <=> ~log_attached))
    /\ [](returned_by.op = "finish" => returned_by.value = "unit")
    /\ [][(trace_pc = "started" /\ trace_pc' = "idle")
            => /\ op_outcome' = op_outcome
               /\ log_attached' = log_attached
               /\ warned' = warned + (IF last_write'.result = "Err"
                                          /\ trace_writes' # trace_writes THEN 1 ELSE 0)
               /\ ~log_attached
                    => UNCHANGED << trace_buf, trace_file, trace_writes,
                                    last_write, warned >>]_vars

FailedTraceWriteWarned ==
    /\ log_attached
    /\ returned_by = [op |-> "finish", value |-> "unit"]
    /\ last_write.result = "Err"
    /\ warned = 1
    /\ traced = MaxEvents
    /\ op_outcome = "Ok"

\* C38: each trace event is appended with exactly one write call, whose
\* buffer holds exactly one complete record ending in a newline (the buffer
\* is cleared before every event, the first one after the metadata record of
\* open included); a write that accepts fewer bytes than the record is
\* reported as an error, and is neither retried nor completed.
OneWritePerRecord ==
    /\ [](last_write.buf # << >>
            => /\ last_write.buf[Len(last_write.buf)] = "\n"
               /\ \A i \in 1 .. Len(last_write.buf) - 1 : last_write.buf[i] # "\n"
               /\ last_write.accepted < Len(last_write.buf) => last_write.result = "Err")
    /\ [][(trace_pc = "started" /\ trace_pc' = "idle" /\ log_attached)
            => /\ trace_writes' = trace_writes + 1
               /\ last_write'.buf \in { EventRecord(a) : a \in EventAttributes }
               /\ trace_file' = trace_file
                                  \o SubSeq(last_write'.buf, 1, last_write'.accepted)]_vars

ShortWriteOfFirstEvent ==
    /\ log_attached
    /\ traced = 1
    /\ trace_writes = 2
    /\ last_write.accepted > 0
    /\ last_write.accepted < Len(last_write.buf)
    /\ last_write.result = "Err"
    /\ Len(trace_file) = Len(MetadataRecord) + last_write.accepted

\* The processes the scheduler holds under pid p: Ready, Inactive or Running.
Held(p) ==
    active[p] + (IF p \in inactive THEN 1 ELSE 0) + (IF p \in running THEN 1 ELSE 0)

\* C34: no two live processes of a worker have the same pid: the scheduler
\* holds at most one process under a pid, a new process gets the lowest free
\* index, and a pid is handed out again only once the process that held it is
\* gone (or its entry was abandoned by a failed setup).
PidsAreUnique ==
    /\ [](\A p \in Pid : Held(p) = IF Live(p) THEN 1 ELSE 0)
    /\ [][\A p \in Pid :
            /\ Live(p) => kind'[p] \in {kind[p], "none"}
            /\ (~Live(p) /\ Live(p)')
                 => /\ \A q \in Pid : q < p => Live(q)
                    /\ \A q \in Pid \ {p} : kind'[q] = kind[q]]_vars

\* Pid 0 holds a task and still has the deadline that an actor registered
\* under it: the pid was handed out a second time, with pid 1 alive.
PidReusedAfterCompletion ==
    /\ kind[0] = "task"
    /\ 0 \in deadlines
    /\ Live(1)

\* C40: when the pid of a completed process is reused, nothing the old
\* process registered is left to be delivered to the new one.  Only actors
\* register deadlines, so no deadline is registered under the pid of a task
\* (violated: the deadline of the completed actor is still in the poller
\* when its pid is handed to a task, and the poller reports the pid when it
\* passes).
OldRegistrationsClearedBeforeReuse ==
    \A p \in Pid : kind[p] = "task" => p \notin deadlines

\* C35: InitiatorProcess::run polls the initiator exactly once in a run and
\* returns Complete if and only if that poll returned an error, Pending
\* otherwise: an initiator process is dropped only after an error of its poll.
InitiatorCompletesOnlyOnError ==
    pkind = "initiator"
        => /\ Len(poll_log) <= 1
           /\ ppc = "poll" => poll_log = << >>
           /\ ppc \in {"returning", "dropped"}
                => /\ Len(poll_log) = 1
                   /\ (presult = "Complete") <=> (poll_log[1] = "Err")
                   /\ (presult = "Pending") <=> (poll_log[1] = "Ok")
           /\ pstate = "Dropped" => poll_log = << "Err" >>
           /\ (ppc = "idle" /\ poll_log # << >>)
                => (poll_log = << "Ok" >> /\ pstate # "Dropped")

InitiatorRemovedAfterError ==
    /\ pkind = "initiator"
    /\ pstate = "Dropped"
    /\ poll_log = << "Err" >>
    /\ measured > MaxStep

\* ------------------------------------------ Timer, Deadline and Interval
MaxNow == 5
MaxInterval == 2
MaxItems == 3

\* Everything but the timers' own state.
notTimeVars == << loopVars, has_initiators, schedVars, chanVars, pollVars,
                 deadlines, boxVars, timerVars, refVars, actorRefVars, traceVars,
                 poll_log, ordVars, procVars, fairVars, superVars >>

\* `self.deadline <= Instant::now()`, the test of all three polls.
deadline_passed_strictly(deadline, t) == deadline < t

deadline_passed(deadline, t) == deadline <= t

\* The next deadline of an Interval: t is the time read after the test, old
\* the deadline that passed.
next_deadline_kept(t, old, interval) == old

next_deadline(t, old, interval) == t + interval

Polled(o, v, p) ==
    [op |-> o, value |-> v, at |-> time_now, polled_fut |-> p, fut |-> fut_ready]

TimerInit ==
    /\ WorkerAtInit
    /\ pa = NoProcess
    /\ pb = NoProcess
    /\ ord = "none"
    /\ ProcessAtInit
    /\ SchedulerAtInit
    /\ SupervisorAtInit

TimePasses ==
    /\ time_now < MaxNow
    /\ time_now' = time_now + 1
    /\ UNCHANGED << t_kind, t_deadline, fut_ready, poll_out, iv_made, iv_interval,
                    iv_deadline, iv_registered, iv_items, notTimeVars >>

\* The future wrapped by the Deadline becomes ready.
FutureBecomesReady ==
    /\ t_kind = "Deadline"
    /\ ~fut_ready
    /\ fut_ready' = TRUE
    /\ UNCHANGED << time_now, t_kind, t_deadline, poll_out, iv_made, iv_interval,
                    iv_deadline, iv_registered, iv_items, notTimeVars >>

\* Timer::new and Deadline::new with any deadline, past or future.
Timer_new ==
    /\ t_kind = "none"
    /\ \E k \in {"Timer", "Deadline"}, d \in 0 .. MaxNow :
         /\ t_kind' = k
         /\ t_deadline' = d
    /\ UNCHANGED << time_now, fut_ready, poll_out, iv_made, iv_interval,
                    iv_deadline, iv_registered, iv_items, notTimeVars >>

\* Future::poll for Timer.
Timer_poll ==
    /\ t_kind = "Timer"
    /\ poll_out' = IF deadline_passed(t_deadline, time_now)
                   THEN Polled("Timer::poll", "Ready(DeadlinePassed)", FALSE)
                   ELSE Polled("Timer::poll", "Pending", FALSE)
    /\ UNCHANGED << time_now, t_kind, t_deadline, fut_ready, iv_made, iv_interval,
                    iv_deadline, iv_registered, iv_items, notTimeVars >>

\* Future::poll for Deadline: the deadline first, the wrapped future only if
\* it has not passed.
Deadline_poll ==
    /\ t_kind = "Deadline"
    /\ poll_out' = IF deadline_passed(t_deadline, time_now)
                   THEN Polled("Deadline::poll", "Ready(Err(DeadlinePassed))", FALSE)
                   ELSE IF fut_ready
                        THEN Polled("Deadline::poll", "Ready(Ok)", TRUE)
                        ELSE Polled("Deadline::poll", "Pending", TRUE)
    /\ UNCHANGED << time_now, t_kind, t_deadline, fut_ready, iv_made, iv_interval,
                    iv_deadline, iv_registered, iv_items, notTimeVars >>

\* Interval::new: the first deadline is now + interval, registered at once.
Interval_new ==
    /\ ~iv_made
    /\ iv_made' = TRUE
    /\ \E i \in 0 .. MaxInterval :
         /\ time_now + i <= MaxNow
         /\ iv_interval' = i
         /\ iv_deadline' = time_now + i
         /\ iv_registered' = << time_now + i >>
    /\ UNCHANGED << time_now, t_kind, t_deadline, fut_ready, poll_out, iv_items,
                    notTimeVars >>

\* Stream::poll_next for Interval.  Instant::now() is read a second time for
\* the next deadline, and time may have passed since the test.
Interval_poll_next ==
    /\ iv_made
    /\ IF deadline_passed(iv_deadline, time_now)
       THEN /\ Len(iv_items) < MaxItems
            /\ \E t \in {time_now, time_now + 1} :
                 /\ t <= MaxNow
                 /\ time_now' = t
                 /\ iv_deadline' = next_deadline(t, iv_deadline, iv_interval)
                 /\ iv_registered' =
                       Append(iv_registered, next_deadline(t, iv_deadline, iv_interval))
                 /\ iv_items' = Append(iv_items, t)
                 /\ poll_out' = [op |-> "Interval::poll_next",
                                 value |-> "Ready(Some(DeadlinePassed))",
                                 at |-> t, polled_fut |-> FALSE, fut |-> fut_ready]
       ELSE /\ poll_out' = Polled("Interval::poll_next", "Pending", FALSE)
            /\ UNCHANGED << time_now, iv_deadline, iv_registered, iv_items >>
    /\ UNCHANGED << t_kind, t_deadline, fut_ready, iv_made, iv_interval,
                    notTimeVars >>

\* FusedStream::is_terminated for Interval.
Interval_is_terminated ==
    /\ iv_made
    /\ poll_out' = Polled("Interval::is_terminated", "false", FALSE)
    /\ UNCHANGED << time_now, t_kind, t_deadline, fut_ready, iv_made, iv_interval,
                    iv_deadline, iv_registered, iv_items, notTimeVars >>

TimerNext ==
    \/ TimePasses \/ FutureBecomesReady
    \/ Timer_new \/ Timer_poll \/ Deadline_poll
    \/ Interval_new \/ Interval_poll_next \/ Interval_is_terminated

SpecTimerPoll == TimerInit /\ [][TimerNext]_vars

\* C36: a Timer resolves with DeadlinePassed on a poll if and only if the time
\* of the poll is at or after its deadline; a Deadline polled at or after its
\* deadline returns Err(DeadlinePassed) without polling the wrapped future,
\* ready or not, and polled before it returns what the wrapped future's poll
\* returned, wrapped in Ok.
TimerResolvesAtDeadline ==
    /\ poll_out.op = "Timer::poll"
         => /\ poll_out.value \in {"Ready(DeadlinePassed)", "Pending"}
            /\ (poll_out.value = "Ready(DeadlinePassed)") <=> (poll_out.at >= t_deadline)
            /\ ~poll_out.polled_fut
    /\ poll_out.op = "Deadline::poll"
         => IF poll_out.at >= t_deadline
            THEN poll_out.value = "Ready(Err(DeadlinePassed))" /\ ~poll_out.polled_fut
            ELSE /\ poll_out.polled_fut
                 /\ poll_out.value = IF poll_out.fut THEN "Ready(Ok)" ELSE "Pending"

DeadlineWinsOverReadyFuture ==
    /\ poll_out.op = "Deadline::poll"
    /\ poll_out.fut
    /\ poll_out.at = t_deadline
    /\ t_deadline > 0
    /\ poll_out.value = "Ready(Err(DeadlinePassed))"

\* C37: an Interval never ends: poll_next answers only Pending or an item and
\* is_terminated answers false.  A poll at or after the current deadline
\* yields exactly one item, sets the next deadline to now + interval and
\* registers it; a poll before it yields nothing.  So consecutive items are at
\* least `interval` apart and, for a positive interval, every registered
\* deadline is strictly later than the one before.
IntervalNeverEndsAndAdvances ==
    /\ [](poll_out.op = "Interval::poll_next"
            => poll_out.value \in {"Ready(Some(DeadlinePassed))", "Pending"})
    /\ [](poll_out.op = "Interval::is_terminated" => poll_out.value = "false")
    /\ [](poll_out.op = "Interval::poll_next" /\ poll_out.value = "Pending"
            => poll_out.at < iv_deadline)
    /\ [](iv_made => /\ Len(iv_registered) = Len(iv_items) + 1
                     /\ iv_deadline = iv_registered[Len(iv_registered)])
    /\ [](\A k \in 1 .. Len(iv_items) - 1 : iv_items[k + 1] - iv_items[k] >= iv_interval)
    /\ [](iv_interval > 0
            => \A k \in 1 .. Len(iv_registered) - 1 :
                 iv_registered[k + 1] > iv_registered[k])
    /\ [][/\ iv_items' # iv_items
              => /\ iv_deadline <= time_now
                 /\ Len(iv_items') = Len(iv_items) + 1
                 /\ iv_deadline' = time_now' + iv_interval
                 /\ iv_registered' = Append(iv_registered, iv_deadline')
                 /\ poll_out'.value = "Ready(Some(DeadlinePassed))"
          /\ (poll_out'.op = "Interval::poll_next" /\ iv_deadline <= time_now
               /\ Len(iv_items) < MaxItems /\ poll_out' # poll_out)
              => iv_items' # iv_items]_vars

TwoItemsOneIntervalApart ==
    /\ iv_interval > 0
    /\ Len(iv_items) >= 2
    /\ iv_items[2] - iv_items[1] = iv_interval
    /\ poll_out.op = "Interval::poll_next"
    /\ poll_out.value = "Ready(Some(DeadlinePassed))"

====
